---- MODULE Spec2Model ----
(***************************************************************************)
(* Model of the withdrawal scoring engine (src/scoring_system.py), of the   *)
(* normalizer of uploaded tables and of the warning merge                  *)
(* (src/data_process.py, src/show_warning_stats.py).                       *)
(*                                                                         *)
(* Units.  Clock values are whole minutes (the clue is parsed with         *)
(* "%Y-%m-%dT%H:%M"), so "time_diff_hours <= h" reads "minutes <= 60*h".   *)
(* Amounts are whole currency units; the relative difference               *)
(* |t - p| / max(t, p) <= q/100 is evaluated as 100*|t - p| <= q*max(t, p),*)
(* which is what the float comparison yields for integral amounts (the     *)
(* division is correctly rounded and the thresholds are the nearest        *)
(* doubles of q/100).  Text is a sequence of characters.                   *)
(***************************************************************************)
EXTENDS Integers, Sequences, FiniteSets, TLC

VARIABLES
    persons,          \* list of person_data dicts handed to score_persons
    target_time,      \* clue time
    target_amount,    \* clue amount
    target_location,  \* clue location text
    pc,               \* "call" before score_persons runs, "returned" after;
                      \* "process" / "processed" around process_uploaded_data;
                      \* "merge" while show_warning_stats may run
    result,           \* the dict score_persons returned
    warning_file,     \* the exported warning list (a table)
    withdraw_file,    \* the exported withdrawal records (a table), which
                      \* show_warning_stats overwrites with the merged table
    merge_returns,    \* what each run of the merge returned or raised
    upload_file,      \* the uploaded table handed to process_uploaded_data
    processed_data,   \* the list process_uploaded_data returned
    log_entries,      \* the warnings and errors process_uploaded_data logged
    helper_call,      \* a direct call of one of DataProcessor's conversions:
                      \* the method's name and its arguments
    helper_result     \* what that call returned or raised

vars ==
    <<persons, target_time, target_amount, target_location, pc, result,
      warning_file, withdraw_file, merge_returns,
      upload_file, processed_data, log_entries, helper_call, helper_result>>

(***************************************************************************)
(* Bounds of the explored inputs.                                          *)
(***************************************************************************)
MaxClueLen == 4
MaxPersons == 3
MaxTransactionCount == 3

MinutesPerHour == 60

(***************************************************************************)
(* Python helpers.                                                         *)
(***************************************************************************)
None == [none |-> TRUE]

\* dict.get(key, default)
Get(d, key, default) == IF key \in DOMAIN d THEN d[key] ELSE default

Abs(x) == IF x < 0 THEN -x ELSE x

Max2(a, b) == IF a >= b THEN a ELSE b

SetMin(S) == CHOOSE x \in S : \A y \in S : x <= y

SetMax(S) == CHOOSE x \in S : \A y \in S : x >= y

\* characters: the ideographic comma and the blank
DUN == "dun"
SP == "sp"

\* str.strip()
Strip(s) ==
    LET keep == {i \in 1..Len(s) : s[i] # SP}
    IN  IF keep = {} THEN <<>> ELSE SubSeq(s, SetMin(keep), SetMax(keep))

\* str.split(sep) for a one-character separator
RECURSIVE Split(_, _)
Split(s, sep) ==
    LET hits == {i \in 1..Len(s) : s[i] = sep}
    IN  IF hits = {} THEN <<s>>
        ELSE LET k == SetMin(hits)
             IN  <<SubSeq(s, 1, k - 1)>> \o Split(SubSeq(s, k + 1, Len(s)), sep)

\* needle in hay
Contains(needle, hay) ==
    \E i \in 0..(Len(hay) - Len(needle)) :
        SubSeq(hay, i + 1, i + Len(needle)) = needle

(***************************************************************************)
(* pandas tables.  A cell is NaN, a text or a number; a table has its      *)
(* headers in file order and one row (header -> cell) per line.            *)
(***************************************************************************)
NaN == [t |-> "nan"]

Text(s) == [t |-> "str", s |-> s]

Num(v) == [t |-> "num", v |-> v]

pd_notna(cell) == cell.t # "nan"

DataFrame(columns, rows) == [columns |-> columns, rows |-> rows]

\* pd.DataFrame([]): no columns, no rows
EmptyFrame == DataFrame(<<>>, <<>>)

\* the parts of the state a call of score_persons does not touch
NoMerge ==
    /\ warning_file = EmptyFrame
    /\ withdraw_file = EmptyFrame
    /\ merge_returns = <<>>

NoUpload ==
    /\ upload_file = EmptyFrame
    /\ processed_data = <<>>
    /\ log_entries = <<>>

NoHelper ==
    /\ helper_call = None
    /\ helper_result = None

NoScoring ==
    /\ persons = <<>>
    /\ target_time = 0
    /\ target_amount = 0
    /\ target_location = <<>>
    /\ result = None

(***************************************************************************)
(* Configuration set by __init__.                                          *)
(***************************************************************************)
amount_thresholds == [low |-> 30000, medium |-> 100000]

additional_score_config_swapped ==
    [low_amount    |-> [male |-> 15, adult_app |-> 20, history_warning |-> 15],
     medium_amount |-> [male |-> 5, female |-> 5, adult_app |-> 10,
                        history_warning |-> 10, special_app |-> 10],
     high_amount   |-> [female |-> 15, special_comm |-> 20,
                        investment_app |-> 15, history_warning |-> 10]]

additional_score_config ==
    [low_amount    |-> [male |-> 15, adult_app |-> 20, history_warning |-> 10],
     medium_amount |-> [male |-> 5, female |-> 5, adult_app |-> 10,
                        history_warning |-> 15, special_app |-> 10],
     high_amount   |-> [female |-> 15, special_comm |-> 20,
                        investment_app |-> 15, history_warning |-> 10]]

get_amount_category(amount) ==
    IF amount < amount_thresholds.low THEN "low"
    ELSE IF amount < amount_thresholds.medium THEN "medium"
    ELSE "high"

(***************************************************************************)
(* calculate_base_score                                                    *)
(***************************************************************************)
time_score_strict(person_data, t_time) ==
    IF "withdraw_time" \notin DOMAIN person_data THEN 0
    ELSE LET d == Abs(t_time - person_data.withdraw_time)
         IN  IF d < 1 * MinutesPerHour THEN 40
             ELSE IF d < 3 * MinutesPerHour THEN 35
             ELSE IF d < 6 * MinutesPerHour THEN 30
             ELSE IF d < 12 * MinutesPerHour THEN 25
             ELSE IF d < 24 * MinutesPerHour THEN 20
             ELSE IF d < 48 * MinutesPerHour THEN 15
             ELSE IF d < 72 * MinutesPerHour THEN 10
             ELSE 5

\* 1. time match: the record's withdraw_time is a datetime or the key is absent
time_score(person_data, t_time) ==
    IF "withdraw_time" \notin DOMAIN person_data THEN 0
    ELSE LET time_diff == Abs(t_time - person_data.withdraw_time)
         IN  IF time_diff <= 1 * MinutesPerHour THEN 40
             ELSE IF time_diff <= 3 * MinutesPerHour THEN 35
             ELSE IF time_diff <= 6 * MinutesPerHour THEN 30
             ELSE IF time_diff <= 12 * MinutesPerHour THEN 25
             ELSE IF time_diff <= 24 * MinutesPerHour THEN 20
             ELSE IF time_diff <= 48 * MinutesPerHour THEN 15
             ELSE IF time_diff <= 72 * MinutesPerHour THEN 10
             ELSE 5

\* the tier of a relative difference diff/base, thresholds in percent
amount_tier_strict(diff, base) ==
    IF 100 * diff < 5 * base THEN 40
    ELSE IF 100 * diff < 10 * base THEN 35
    ELSE IF 100 * diff < 20 * base THEN 30
    ELSE IF 100 * diff < 30 * base THEN 25
    ELSE IF 100 * diff < 50 * base THEN 20
    ELSE IF 100 * diff < 70 * base THEN 15
    ELSE IF 100 * diff < 100 * base THEN 10
    ELSE 5

amount_tier(diff, base) ==
    IF 100 * diff <= 5 * base THEN 40
    ELSE IF 100 * diff <= 10 * base THEN 35
    ELSE IF 100 * diff <= 20 * base THEN 30
    ELSE IF 100 * diff <= 30 * base THEN 25
    ELSE IF 100 * diff <= 50 * base THEN 20
    ELSE IF 100 * diff <= 70 * base THEN 15
    ELSE IF 100 * diff <= 100 * base THEN 10
    ELSE 5

amount_score_by_clue(person_data, t_amount) ==
    LET person_amount == Get(person_data, "amount", 0)
    IN  IF person_amount > 0
        THEN amount_tier(Abs(t_amount - person_amount), Abs(t_amount))
        ELSE 0

\* float('inf'), which float() gives for the text 'inf' (line 126 for the
\* record amount, app.py:148 for the clue amount): larger than every amount
Infinity == 2147483647

\* 2. amount match.  With an infinite amount on either side amount_diff and
\* the larger amount are both inf, amount_diff_ratio is inf / inf = nan, every
\* "<=" of lines 129-142 is False and line 144 gives 5
amount_score(person_data, t_amount) ==
    LET person_amount == Get(person_data, "amount", 0)
    IN  IF person_amount > 0
        THEN (IF Infinity \in {person_amount, t_amount} THEN 5
              ELSE amount_tier(Abs(t_amount - person_amount),
                               Max2(t_amount, person_amount)))
        ELSE 0

location_score_first_only(person_data, t_location) ==
    LET person_location == Get(person_data, "location", <<>>)
    IN  IF Strip(t_location) # <<>>
        THEN LET keyword == Strip(Split(Strip(t_location), DUN)[1])
             IN  IF keyword # <<>> /\ Contains(keyword, person_location)
                 THEN 40 ELSE 0
        ELSE 40

\* 3. location match
location_score(person_data, t_location) ==
    LET person_location == Get(person_data, "location", <<>>)
    IN  IF t_location # <<>> /\ Strip(t_location) # <<>>
        THEN LET target_keywords == Split(Strip(t_location), DUN)
                 location_matched ==
                     \E k \in 1..Len(target_keywords) :
                         LET keyword == Strip(target_keywords[k])
                         IN  keyword # <<>> /\ Contains(keyword, person_location)
             IN  IF location_matched THEN 40 ELSE 0
        ELSE 40

calculate_base_score(person_data, t_time, t_amount, t_location) ==
    LET ts == time_score(person_data, t_time)
        as == amount_score(person_data, t_amount)
        ls == location_score(person_data, t_location)
    IN  [time_score       |-> ts,
         amount_score     |-> as,
         location_score   |-> ls,
         total_base_score |-> ts + as + ls]

(***************************************************************************)
(* calculate_additional_score                                              *)
(***************************************************************************)
\* lines 246-250: 5 points for every withdrawal after the first
frequency_score_capped(transaction_count) ==
    IF transaction_count >= 2
    THEN (IF transaction_count - 1 > 2 THEN 2 ELSE transaction_count - 1) * 5
    ELSE 0

frequency_score_of(transaction_count) ==
    IF transaction_count >= 2 THEN (transaction_count - 1) * 5 ELSE 0

\* lines 196-260: the scores under the weight table of amount_category
additional_scores_for(person_data, amount_category) ==
    LET config ==
            IF amount_category = "low" THEN additional_score_config.low_amount
            ELSE IF amount_category = "medium"
                 THEN additional_score_config.medium_amount
                 ELSE additional_score_config.high_amount
        gender == Get(person_data, "gender", "unknown")
        has_adult_app == Get(person_data, "has_adult_app", FALSE)
        has_special_comm == Get(person_data, "has_special_comm", FALSE)
        has_history_warning == Get(person_data, "has_history_warning", FALSE)
        has_investment_app == Get(person_data, "has_investment_app", FALSE)
        transaction_count == Get(person_data, "transaction_count", 1)
        gender_score ==
            IF amount_category = "low"
            THEN (IF gender = "male" THEN config.male ELSE 0)
            ELSE IF amount_category = "medium"
            THEN (IF gender = "male" THEN config.male
                  ELSE IF gender = "female" THEN config.female ELSE 0)
            ELSE (IF gender = "female" THEN config.female ELSE 0)
        app_score ==
            IF amount_category = "low"
            THEN (IF has_adult_app THEN config.adult_app ELSE 0)
            ELSE IF amount_category = "medium"
            THEN (IF has_adult_app THEN config.adult_app ELSE 0)
                 + (IF has_special_comm THEN config.special_app ELSE 0)
            ELSE (IF has_special_comm THEN config.special_comm ELSE 0)
                 + (IF has_investment_app THEN config.investment_app ELSE 0)
        history_warning_score ==
            IF has_history_warning THEN config.history_warning ELSE 0
        frequency_score == frequency_score_of(transaction_count)
    IN  [gender_score           |-> gender_score,
         app_score              |-> app_score,
         history_warning_score  |-> history_warning_score,
         frequency_score        |-> frequency_score,
         total_additional_score |->
             gender_score + app_score + history_warning_score + frequency_score]

calculate_additional_score_by_record(person_data, t_amount) ==
    additional_scores_for(person_data,
                          get_amount_category(Get(person_data, "amount", 0)))

\* a record with warnings on file gets 5 points more
calculate_additional_score_counting_warnings(person_data, t_amount) ==
    LET scores ==
            additional_scores_for(person_data, get_amount_category(t_amount))
        warned == IF Get(person_data, "warning_count", 0) > 0 THEN 5 ELSE 0
    IN  [scores EXCEPT !.history_warning_score = @ + warned,
                       !.total_additional_score = @ + warned]

calculate_additional_score(person_data, t_amount) ==
    additional_scores_for(person_data, get_amount_category(t_amount))

(***************************************************************************)
(* score_person_new.  The records explored are well typed (numbers, flags  *)
(* and text where the code expects them); attributes may be missing.       *)
(***************************************************************************)
total_score_without_frequency(base_scores, additional_scores) ==
    base_scores.total_base_score
    + additional_scores.gender_score + additional_scores.app_score
    + additional_scores.history_warning_score

total_score(base_scores, additional_scores) ==
    base_scores.total_base_score + additional_scores.total_additional_score

match_level_exclusive(total) ==
    IF total > 100 THEN "very_high"
    ELSE IF total > 80 THEN "high"
    ELSE IF total > 60 THEN "medium"
    ELSE IF total > 40 THEN "low"
    ELSE "very_low"

match_level(total) ==
    IF total >= 100 THEN "very_high"
    ELSE IF total >= 80 THEN "high"
    ELSE IF total >= 60 THEN "medium"
    ELSE IF total >= 40 THEN "low"
    ELSE "very_low"

\* A clue location that is a number instead of text: /scoring hands over
\* payload.get("clue_location", "") as the JSON gave it (app.py:137, 171).
NumberForText == <<"<number>">>

\* the try body with person_data['gender'] in place of person_data.get
try_body_raises_on_missing_key(person_data, t_time, t_amount, t_location) ==
    \/ t_location = NumberForText
    \/ "gender" \notin DOMAIN person_data

\* lines 275-322: the one statement of the try body that raises on the
\* inputs explored is target_location.strip() (line 147) on a number
try_body_raises(person_data, t_time, t_amount, t_location) ==
    t_location = NumberForText

\* lines 324-331: the dict returned by the except branch
error_result(person_data) ==
    [name        |-> Get(person_data, "name", <<"unknown">>),
     score       |-> 0,
     match_level |-> "error",
     error       |-> "AttributeError"]

\* every term of the total is an integer, so round(total_score, 1) keeps it
score_person_new(person_data, t_time, t_amount, t_location) ==
    IF try_body_raises(person_data, t_time, t_amount, t_location)
    THEN error_result(person_data)
    ELSE
    LET base_scores ==
            calculate_base_score(person_data, t_time, t_amount, t_location)
        additional_scores == calculate_additional_score(person_data, t_amount)
        total == total_score(base_scores, additional_scores)
    IN  [id_number           |-> Get(person_data, "id_number", <<>>),
         withdraw_time       |-> Get(person_data, "withdraw_time", None),
         amount              |-> Get(person_data, "amount", 0),
         location            |-> Get(person_data, "location", <<>>),
         gender              |-> Get(person_data, "gender", "unknown"),
         has_adult_app       |-> Get(person_data, "has_adult_app", FALSE),
         has_special_comm    |-> Get(person_data, "has_special_comm", FALSE),
         has_history_warning |-> Get(person_data, "has_history_warning", FALSE),
         has_investment_app  |-> Get(person_data, "has_investment_app", FALSE),
         score               |-> total,
         match_level         |-> match_level(total),
         amount_category     |-> get_amount_category(t_amount),
         score_details       |->
             [base_scores            |-> base_scores,
              additional_scores      |-> additional_scores,
              total_base_score       |-> base_scores.total_base_score,
              total_additional_score |->
                  additional_scores.total_additional_score]]

(***************************************************************************)
(* score_persons                                                           *)
(***************************************************************************)
\* list.sort(key=score, reverse=True): descending, equal keys keep their order
RECURSIVE SortedInsert(_, _)
SortedInsert(sorted, x) ==
    IF sorted = <<>> THEN <<x>>
    ELSE IF Head(sorted).score >= x.score
         THEN <<Head(sorted)>> \o SortedInsert(Tail(sorted), x)
         ELSE <<x>> \o sorted

RECURSIVE SortDescending(_)
SortDescending(seq) ==
    IF seq = <<>> THEN <<>>
    ELSE SortedInsert(SortDescending(SubSeq(seq, 1, Len(seq) - 1)),
                      seq[Len(seq)])

RECURSIVE SortedInsertBeforeEqual(_, _)
SortedInsertBeforeEqual(sorted, x) ==
    IF sorted = <<>> THEN <<x>>
    ELSE IF Head(sorted).score > x.score
         THEN <<Head(sorted)>> \o SortedInsertBeforeEqual(Tail(sorted), x)
         ELSE <<x>> \o sorted

RECURSIVE SortDescendingReversingTies(_)
SortDescendingReversingTies(seq) ==
    IF seq = <<>> THEN <<>>
    ELSE SortedInsertBeforeEqual(
             SortDescendingReversingTies(SubSeq(seq, 1, Len(seq) - 1)),
             seq[Len(seq)])

sort_by_score_unstable(scored) == SortDescendingReversingTies(scored)

sort_by_score(scored) == SortDescending(scored)

top_match_last(scored) ==
    IF scored # <<>> THEN scored[Len(scored)] ELSE None

top_match(scored) == IF scored # <<>> THEN scored[1] ELSE None

\* perform_analysis (lines 433-434) refuses an empty list; score_persons
\* does not
empty_result_refused(t_time, t_amount) ==
    [error |-> "ValueError"]

\* lines 352-362: the result for an empty list of persons
empty_result(t_time, t_amount) ==
    [total_persons   |-> 0,
     target_info     |-> [time |-> t_time, amount |-> t_amount],
     scored_persons  |-> <<>>,
     top_match       |-> None,
     amount_category |-> get_amount_category(t_amount)]

score_persons(ps, t_time, t_amount, t_location) ==
    IF ps = <<>>
    THEN empty_result(t_time, t_amount)
    ELSE LET scored ==
                 sort_by_score(
                     [k \in 1..Len(ps) |->
                         score_person_new(ps[k], t_time, t_amount, t_location)])
         IN  [total_persons   |-> Len(scored),
              target_info     |-> [time |-> t_time, amount |-> t_amount,
                                   location |-> t_location],
              scored_persons  |-> scored,
              top_match       |-> top_match(scored),
              amount_category |-> get_amount_category(t_amount),
              scoring_method  |-> "layered"]

(***************************************************************************)
(* Inputs.  District names as the normalizer emits them (data_process.py   *)
(* location_keywords), two characters each.                                *)
(***************************************************************************)
DingHai == <<"ding", "hai">>
PuTuo == <<"pu", "tuo">>
DaiShan == <<"dai", "shan">>
ShengSi == <<"sheng", "si">>
QiTa == <<"qi", "ta">>

Districts == {DingHai, PuTuo, DaiShan, ShengSi, QiTa}

Genders == {"male", "female", "unknown"}

\* a withdrawal record as process_uploaded_data builds it; when == <<>>
\* leaves the withdraw_time key out, as the normalizer does for a date it
\* could not parse
Person(id, when, amount, location, gender, adult, comm, history, invest, count) ==
    LET fields ==
            [id_number           |-> id,
             amount              |-> amount,
             location            |-> location,
             gender              |-> gender,
             has_adult_app       |-> adult,
             has_special_comm    |-> comm,
             has_history_warning |-> history,
             has_investment_app  |-> invest,
             transaction_count   |-> count]
    IN  IF when = <<>> THEN fields
        ELSE fields @@ [withdraw_time |-> when[1]]

\* minute offsets on both sides of every time threshold
TimeOffsets ==
    {0, 59, 60, 61, 180, 181, 360, 361, 720, 721, 1440, 1441,
     2880, 2881, 4320, 4321, 4380}

\* amounts on both sides of every relative-difference threshold against 100,
\* non-positive amounts, and the bucket boundaries
SmallAmounts ==
    {-100, 0, 1, 29, 30, 31, 49, 50, 51, 69, 70, 71, 79, 80, 81, 89, 90, 91,
     94, 95, 96, 100, 105, 106, 110, 112, 125, 126, 200, 201, 334, 1000}

BucketAmounts == {29999, 30000, 99999, 100000}

ClueChars == {"ding", "hai", "pu", DUN, SP}

\* every text of at most n characters over ClueChars
RECURSIVE Texts(_)
Texts(n) ==
    IF n = 0 THEN {<<>>}
    ELSE LET shorter == Texts(n - 1)
         IN  shorter \cup {Append(t, c) : t \in shorter, c \in ClueChars}

\* one record, every clue-to-record time distance
InitTime ==
    /\ target_time \in {0, 4380}
    /\ target_amount = 100
    /\ target_location = <<>>
    /\ \E when \in {<<>>} \cup {<<t>> : t \in TimeOffsets} :
           persons = <<Person(1, when, 100, DingHai, "unknown",
                              FALSE, FALSE, FALSE, FALSE, 1)>>

\* one record, every pair of clue amount and record amount
InitAmount ==
    /\ target_time = 0
    /\ target_amount \in SmallAmounts \cup BucketAmounts
    /\ target_location = <<>>
    /\ \E amount \in SmallAmounts \cup BucketAmounts :
           persons = <<Person(1, <<0>>, amount, DingHai, "unknown",
                              FALSE, FALSE, FALSE, FALSE, 1)>>

\* one record, every clue text against every record location
InitLocation ==
    /\ target_time = 0
    /\ target_amount = 100
    /\ target_location \in Texts(MaxClueLen)
    /\ \E location \in Districts \cup {<<>>} :
           persons = <<Person(1, <<0>>, 100, location, "unknown",
                              FALSE, FALSE, FALSE, FALSE, 1)>>

\* one record, every combination of gender, flags and transaction count in
\* every bucket, with the record's own amount in another bucket than the clue
InitFeatures ==
    /\ target_time = 0
    /\ target_amount \in BucketAmounts
    /\ target_location = <<>>
    /\ \E gender \in Genders, adult, comm, history, invest \in BOOLEAN,
          count \in 0..MaxTransactionCount, amount \in {29999, 100000},
          when \in {<<>>, <<0>>} :
           persons = <<Person(1, when, amount, DingHai, gender,
                              adult, comm, history, invest, count)>>

\* the records a batch is drawn from: totals that differ and totals that tie
BatchPerson(id, v) ==
    Person(id, v.when, 100, DingHai, v.gender, FALSE, FALSE, FALSE, FALSE, v.count)

BatchVariants ==
    [when : {<<>>, <<0>>}, gender : {"male", "unknown"}, count : {1, 4}]

\* batches of 0..MaxPersons records, the record at position k carrying id k
InitBatch ==
    /\ target_time = 0
    /\ target_amount = 100
    /\ target_location \in {<<>>, PuTuo}
    /\ \E n \in 0..MaxPersons :
           \E choice \in [1..n -> BatchVariants] :
               persons = [k \in 1..n |-> BatchPerson(k, choice[k])]

Init ==
    /\ pc = "call"
    /\ result = None
    /\ NoMerge
    /\ NoUpload
    /\ NoHelper
    /\ \/ InitTime
       \/ InitAmount
       \/ InitLocation
       \/ InitFeatures
       \/ InitBatch

(***************************************************************************)
(* The one operation: a call of score_persons on the submitted batch.      *)
(***************************************************************************)
Call_score_persons ==
    /\ pc = "call"
    /\ result' = score_persons(persons, target_time, target_amount,
                               target_location)
    /\ pc' = "returned"
    /\ UNCHANGED <<persons, target_time, target_amount, target_location>>
    /\ UNCHANGED <<warning_file, withdraw_file, merge_returns>>
    /\ UNCHANGED <<upload_file, processed_data, log_entries>>
    /\ UNCHANGED <<helper_call, helper_result>>

Next == Call_score_persons

Spec == Init /\ [][Next]_vars

(***************************************************************************)
(* Records with attributes missing.  One record per call: a complete       *)
(* record with every flag set and three withdrawals, restricted to the     *)
(* keys that are not dropped; the clue location is blank, a district or    *)
(* a number.                                                               *)
(***************************************************************************)
OptionalKeys ==
    {"withdraw_time", "amount", "location", "gender", "has_adult_app",
     "has_special_comm", "has_history_warning", "has_investment_app",
     "transaction_count"}

CompletePerson(gender) ==
    Person(1, <<0>>, 100, DingHai, gender, TRUE, TRUE, TRUE, TRUE, 3)

Without(person_data, dropped) ==
    [key \in DOMAIN person_data \ dropped |-> person_data[key]]

InitPartial ==
    /\ pc = "call"
    /\ result = None
    /\ NoMerge
    /\ NoUpload
    /\ NoHelper
    /\ target_time = 120
    /\ target_amount \in BucketAmounts
    /\ target_location \in {<<>>, DingHai, PuTuo, NumberForText}
    /\ \E gender \in {"male", "female"}, dropped \in SUBSET OptionalKeys :
           persons = <<Without(CompletePerson(gender), dropped)>>

SpecPartial == InitPartial /\ [][Next]_vars

(***************************************************************************)
(* Records as process_uploaded_data leaves them after an enriched file:    *)
(* every record carries a warning count and the fraud-type labels (lines   *)
(* 492-516), and an amount cell 'inf' has come through float() as inf.     *)
(***************************************************************************)
MaxWarningCount == 2

\* ', '.join(types) of no label, one label and two labels
FraudTypeLabels == {<<>>, <<"p">>, <<"p", ",", SP, "q">>}

Enriched(person_data, warning_count, fraud_type) ==
    person_data @@ [warning_count |-> warning_count, fraud_type |-> fraud_type]

\* two records alike in everything but their ID, warning count and labels,
\* with or without a third record between them, against clue amounts that
\* _validate_inputs lets through (amount > 0, float('inf') among them)
InitEnriched ==
    /\ pc = "call"
    /\ result = None
    /\ NoMerge
    /\ NoUpload
    /\ NoHelper
    /\ target_time = 0
    /\ target_amount \in {1, 100, 100000, Infinity}
    /\ target_location \in {<<>>, DingHai}
    /\ \E amount \in {-100, 0, 50, 100, 1000, Infinity},
          history \in BOOLEAN, count \in {1, 4},
          counts \in (0..MaxWarningCount) \X (0..MaxWarningCount),
          labels \in FraudTypeLabels \X FraudTypeLabels,
          between \in {<<>>, <<Enriched(Person(3, <<0>>, 100, PuTuo, "unknown",
                                               FALSE, FALSE, FALSE, FALSE, 1),
                                        0, <<>>)>>} :
           persons =
               <<Enriched(Person(1, <<0>>, amount, DingHai, "male",
                                 FALSE, FALSE, history, FALSE, count),
                          counts[1], labels[1])>>
               \o between
               \o <<Enriched(Person(2, <<0>>, amount, DingHai, "male",
                                    FALSE, FALSE, history, FALSE, count),
                             counts[2], labels[2])>>

SpecEnriched == InitEnriched /\ [][Next]_vars

(***************************************************************************)
(* Text of table cells and headers.  A Chinese character is written as its *)
(* syllable; str() of NaN is the text 'nan'.                               *)
(***************************************************************************)
nan_text == <<"n", "a", "n">>

RECURSIVE Decimal(_)
Decimal(n) ==
    LET digit == <<"0", "1", "2", "3", "4", "5", "6", "7", "8", "9">>
    IN  IF n < 0 THEN <<"-">> \o Decimal(-n)
        ELSE IF n < 10 THEN <<digit[n + 1]>>
             ELSE Decimal(n \div 10) \o <<digit[(n % 10) + 1]>>

\* str(cell)
str(cell) ==
    IF cell.t = "str" THEN cell.s
    ELSE IF cell.t = "nan" THEN nan_text
         ELSE Decimal(cell.v)

isdigit(c) == c \in {"0", "1", "2", "3", "4", "5", "6", "7", "8", "9"}

\* sep.join(list)
RECURSIVE Join(_, _)
Join(list, sep) ==
    IF list = <<>> THEN <<>>
    ELSE IF Len(list) = 1 THEN list[1]
         ELSE list[1] \o sep \o Join(Tail(list), sep)

Range(seq) == {seq[i] : i \in 1..Len(seq)}

ShenFenZhengHao == <<"shen", "fen", "zheng", "hao">>
ShouHaiRen == <<"shou", "hai4", "ren">>
HaoMa == <<"hao", "ma">>
DianHua == <<"dian", "hua">>
ShouJiHao == <<"shou3", "ji", "hao">>
LianXiFangShi == <<"lian", "xi", "fang", "shi">>
LeiXing == <<"lei", "xing">>
ZhaPianLeiXing == <<"zha", "pian">> \o LeiXing
YiSiZhaPianLeiXing == <<"yi", "si4">> \o ZhaPianLeiXing
YuJingCiShu == <<"yu", "jing", "ci", "shu">>

\* find_column_by_keywords returning None
NoColumn == <<>>

\* the first header, in any keyword's favour, that contains some keyword
RECURSIVE find_column_header_first(_, _)
find_column_header_first(columns, keywords) ==
    IF columns = <<>> THEN NoColumn
    ELSE IF \E k \in 1..Len(keywords) : Contains(keywords[k], Head(columns))
         THEN Head(columns)
         ELSE find_column_header_first(Tail(columns), keywords)

\* lines 56-62: keywords in priority order, headers in file order
RECURSIVE find_column_by_keywords(_, _)
find_column_by_keywords(columns, keywords) ==
    IF keywords = <<>> THEN NoColumn
    ELSE LET hits == {i \in 1..Len(columns) :
                         Contains(Head(keywords), columns[i])}
         IN  IF hits # {} THEN columns[SetMin(hits)]
             ELSE find_column_by_keywords(columns, Tail(keywords))

(***************************************************************************)
(* merge_warning_count_to_withdraw_records                                 *)
(***************************************************************************)
\* lines 656, 718: the trimmed text of a key cell, '' for NaN
key_text(cell) == IF pd_notna(cell) THEN Strip(str(cell)) ELSE <<>>

\* lines 657, 719
usable_key(text) == text # <<>> /\ text # nan_text

\* lines 665-669: the label a warning row contributes, if any
row_types(row, fraud_type_col) ==
    IF fraud_type_col # NoColumn /\ pd_notna(row[fraud_type_col])
    THEN LET fraud_type == Strip(str(row[fraud_type_col]))
         IN  IF usable_key(fraud_type) THEN <<fraud_type>> ELSE <<>>
    ELSE <<>>

\* the labels of the rows `counted`, from row i on, in row order
RECURSIVE collect_types(_, _, _, _)
collect_types(rows, counted, fraud_type_col, i) ==
    IF i > Len(rows) THEN <<>>
    ELSE (IF i \in counted THEN row_types(rows[i], fraud_type_col) ELSE <<>>)
         \o collect_types(rows, counted, fraud_type_col, i + 1)

\* the dict built from the rows `counted` under their key column
warning_info(rows, key_col, counted, fraud_type_col) ==
    LET key(i) == key_text(rows[i][key_col])
    IN  [k \in {key(i) : i \in counted} |->
            LET same == {i \in counted : key(i) = k}
            IN  [count |-> Cardinality(same),
                 types |-> collect_types(rows, same, fraud_type_col, 1)]]

\* lines 652-669
id_warning_info(warning_df, victim_id_col, fraud_type_col) ==
    LET rows == warning_df.rows
        counted == {i \in 1..Len(rows) :
                       usable_key(key_text(rows[i][victim_id_col]))}
    IN  warning_info(rows, victim_id_col, counted, fraud_type_col)

\* lines 715-733: only phone numbers that start with a digit
phone_warning_info(warning_df, victim_phone_col, fraud_type_col) ==
    LET rows == warning_df.rows
        counted == {i \in 1..Len(rows) :
                       LET victim_phone == key_text(rows[i][victim_phone_col])
                       IN  /\ usable_key(victim_phone)
                           /\ isdigit(victim_phone[1])}
    IN  warning_info(rows, victim_phone_col, counted, fraud_type_col)

\* lines 675, 744: ', '.join(info['types']) if info['types'] else ''
fraud_types(info) == Join(info.types, <<",", SP>>)

\* the two columns the merge fills, for a record nothing matched
Unmatched == [count |-> 0, labels |-> <<>>]

\* lines 682-699.  id_counts_df is pd.DataFrame([]) when no victim ID is
\* usable, and the join on its column raises KeyError; a withdrawal table
\* that already has the count column gets it back from the join under the
\* names with suffixes _x and _y, and line 698 raises KeyError; with the
\* label column already there, id_matched.get falls to its default.
id_stage(warning_df, withdraw_df, victim_id_col, withdraw_id_col, fraud_type_col) ==
    LET id_warning == id_warning_info(warning_df, victim_id_col, fraud_type_col)
        clean(i) == Strip(str(withdraw_df.rows[i][withdraw_id_col]))
    IN  IF DOMAIN id_warning = {} THEN [raised |-> "KeyError", rows |-> <<>>]
        ELSE IF YuJingCiShu \in Range(withdraw_df.columns)
        THEN [raised |-> "KeyError", rows |-> <<>>]
        ELSE [raised |-> "none",
              rows |->
                [i \in 1..Len(withdraw_df.rows) |->
                    IF clean(i) \in DOMAIN id_warning
                    THEN [count  |-> id_warning[clean(i)].count,
                          labels |->
                              IF YiSiZhaPianLeiXing \in
                                     Range(withdraw_df.columns)
                              THEN <<>>
                              ELSE fraud_types(id_warning[clean(i)])]
                    ELSE Unmatched]]

\* the records the phone stage updates, were it to look at every record
unmatched_index_all(merged_rows) == 1..Len(merged_rows)

\* line 709: merged_df[merged_df['预警次数'] == 0]
unmatched_index(merged_rows) ==
    {i \in 1..Len(merged_rows) : merged_rows[i].count = 0}

\* lines 709-746
phone_stage(warning_df, withdraw_df, merged_rows, victim_phone_col, withdraw_phone_col, fraud_type_col) ==
    LET unmatched == unmatched_index(merged_rows)
        phone_warning ==
            phone_warning_info(warning_df, victim_phone_col, fraud_type_col)
        phone(i) == Strip(str(withdraw_df.rows[i][withdraw_phone_col]))
    IN  [i \in 1..Len(merged_rows) |->
            IF i \in unmatched /\ phone(i) \in DOMAIN phone_warning
            THEN [count  |-> phone_warning[phone(i)].count,
                  labels |-> IF fraud_type_col # NoColumn
                             THEN fraud_types(phone_warning[phone(i)])
                             ELSE merged_rows[i].labels]
            ELSE merged_rows[i]]

\* the column check applied to the withdrawal table alone
missing_key_columns_of_withdrawals(victim_id_col, victim_phone_col, withdraw_id_col, withdraw_phone_col) ==
    withdraw_id_col = NoColumn /\ withdraw_phone_col = NoColumn

\* lines 616-618 and 624-626: either table without any key column
missing_key_columns(victim_id_col, victim_phone_col, withdraw_id_col, withdraw_phone_col) ==
    \/ victim_id_col = NoColumn /\ victim_phone_col = NoColumn
    \/ withdraw_id_col = NoColumn /\ withdraw_phone_col = NoColumn

\* lines 753-769: the temporary columns dropped from the merged table
columns_to_drop ==
    {ShenFenZhengHao \o <<"_clean">>, ShenFenZhengHao \o <<"_x">>,
     ShenFenZhengHao \o <<"_y">>, DianHua \o HaoMa \o <<"_clean">>,
     DianHua \o HaoMa \o <<"_x">>, DianHua \o HaoMa \o <<"_y">>}

\* lines 632-644 and 753-769: the withdrawal table with the count and label
\* columns set (appended when new) and the temporary columns dropped
merged_frame(withdraw_df, merged_rows) ==
    LET added == SelectSeq(<<YuJingCiShu, YiSiZhaPianLeiXing>>,
                           LAMBDA c : c \notin Range(withdraw_df.columns))
        columns == SelectSeq(withdraw_df.columns \o added,
                             LAMBDA c : c \notin columns_to_drop)
    IN  DataFrame(columns,
                  [i \in 1..Len(withdraw_df.rows) |->
                      LET row ==
                              [c \in {YuJingCiShu, YiSiZhaPianLeiXing} |->
                                  IF c = YuJingCiShu
                                  THEN Num(merged_rows[i].count)
                                  ELSE Text(merged_rows[i].labels)]
                              @@ withdraw_df.rows[i]
                      IN  [c \in Range(columns) |-> row[c]]])

\* lines 603-793.  What one call returns or raises: id_stage is the count
\* and labels of every record where the phone stage begins (line 705).
merge_warning_count_to_withdraw_records(warning_df, withdraw_df) ==
    LET victim_id_col ==
            find_column_by_keywords(warning_df.columns,
                                    <<ShouHaiRen \o ShenFenZhengHao,
                                      ShenFenZhengHao>>)
        victim_phone_col ==
            find_column_by_keywords(warning_df.columns,
                                    <<ShouHaiRen \o HaoMa, HaoMa>>)
        withdraw_id_col ==
            find_column_by_keywords(withdraw_df.columns, <<ShenFenZhengHao>>)
        withdraw_phone_col ==
            find_column_by_keywords(withdraw_df.columns,
                                    <<DianHua \o HaoMa, ShouJiHao, DianHua,
                                      LianXiFangShi>>)
        fraud_type_col ==
            find_column_by_keywords(warning_df.columns,
                                    <<YiSiZhaPianLeiXing, ZhaPianLeiXing,
                                      LeiXing>>)
        initial == [i \in 1..Len(withdraw_df.rows) |-> Unmatched]
        by_id ==
            IF victim_id_col # NoColumn /\ withdraw_id_col # NoColumn
            THEN id_stage(warning_df, withdraw_df, victim_id_col,
                          withdraw_id_col, fraud_type_col)
            ELSE [raised |-> "none", rows |-> initial]
        by_phone ==
            IF /\ victim_phone_col # NoColumn
               /\ withdraw_phone_col # NoColumn
               /\ unmatched_index(by_id.rows) # {}
            THEN phone_stage(warning_df, withdraw_df, by_id.rows,
                             victim_phone_col, withdraw_phone_col,
                             fraud_type_col)
            ELSE by_id.rows
    IN  IF missing_key_columns(victim_id_col, victim_phone_col,
                               withdraw_id_col, withdraw_phone_col)
        THEN [raised |-> "ValueError", id_stage |-> <<>>,
              merged_df |-> EmptyFrame]
        ELSE IF by_id.raised # "none"
        THEN [raised |-> by_id.raised, id_stage |-> <<>>,
              merged_df |-> EmptyFrame]
        ELSE [raised |-> "none", id_stage |-> by_id.rows,
              merged_df |-> merged_frame(withdraw_df, by_phone)]

\* to_excel: an empty text is written as an empty cell, read back as NaN
save_file(df) ==
    DataFrame(df.columns,
              [i \in 1..Len(df.rows) |->
                  [c \in DOMAIN df.rows[i] |->
                      IF df.rows[i][c] = Text(<<>>) THEN NaN
                      ELSE df.rows[i][c]]])

(***************************************************************************)
(* show_warning_stats.main: the merge with the withdrawal file as its own  *)
(* output.  The explored exports: every choice of the key and label        *)
(* columns over fixed rows, and, with all columns there, every content of  *)
(* the withdrawal rows and of one warning row among fixed ones.            *)
(***************************************************************************)
MaxRuns == 2
MaxWarningRows == 2
MaxWithdrawRows == 2

\* the subsequences of seq
RECURSIVE SubSequences(_)
SubSequences(seq) ==
    IF seq = <<>> THEN {<<>>}
    ELSE LET rest == SubSequences(Tail(seq))
         IN  rest \cup {<<Head(seq)>> \o r : r \in rest}

\* the table of `rows` cut down to `columns`
Project(columns, rows) ==
    DataFrame(columns,
              [i \in 1..Len(rows) |-> [c \in Range(columns) |-> rows[i][c]]])

WarningHeaders ==
    <<ShouHaiRen \o ShenFenZhengHao, ShouHaiRen \o HaoMa, YiSiZhaPianLeiXing>>

WithdrawHeaders == <<ShenFenZhengHao, DianHua \o HaoMa>>

WarningRow(victim_id, victim_phone, fraud_type) ==
    [c \in Range(WarningHeaders) |->
        IF c = WarningHeaders[1] THEN victim_id
        ELSE IF c = WarningHeaders[2] THEN victim_phone ELSE fraud_type]

WithdrawRow(id, phone) ==
    [c \in Range(WithdrawHeaders) |->
        IF c = WithdrawHeaders[1] THEN id ELSE phone]

VictimIdCells ==
    {NaN, Text(<<SP>>), Text(nan_text), Text(<<SP, "7">>), Text(<<"8">>)}

VictimPhoneCells == {NaN, Text(<<"1">>), Text(<<"+", "1">>)}

FraudTypeCells == {NaN, Text(<<SP>>), Text(<<"p">>), Text(<<"q">>)}

WithdrawIdCells == {NaN, Text(<<"7", SP>>), Text(<<"8">>)}

WithdrawPhoneCells == {Text(<<"1">>), Text(<<"2">>)}

InitMergeColumns ==
    /\ \E columns \in SubSequences(WarningHeaders) :
           warning_file =
               Project(columns,
                       <<WarningRow(Text(<<"7">>), Text(<<"1">>), Text(<<"p">>)),
                         WarningRow(Text(<<"7">>), Text(<<"2">>), Text(<<"q">>))>>)
    /\ \E columns \in SubSequences(WithdrawHeaders) :
           withdraw_file =
               Project(columns,
                       <<WithdrawRow(Text(<<"7">>), Text(<<"2">>)),
                         WithdrawRow(Text(<<"8">>), Text(<<"1">>))>>)

\* the warning table is empty, or has one row of any cells at any place
\* among rows that name a victim by ID; the withdrawal rows are any
InitMergeContent ==
    /\ \/ warning_file = DataFrame(WarningHeaders, <<>>)
       \/ \E n \in 1..MaxWarningRows :
              \E k \in 1..n :
                  \E rows \in [1..n ->
                                {WarningRow(Text(<<"8">>), Text(<<"1">>),
                                            Text(<<"p">>)),
                                 WarningRow(Text(<<SP, "7">>), NaN,
                                            Text(<<"q">>))}] :
                      \E i \in VictimIdCells, p \in VictimPhoneCells,
                         f \in FraudTypeCells :
                          warning_file =
                              DataFrame(WarningHeaders,
                                        [rows EXCEPT
                                            ![k] = WarningRow(i, p, f)])
    /\ \E n \in 1..MaxWithdrawRows :
           \E rows \in [1..n -> {WithdrawRow(i, p) : i \in WithdrawIdCells,
                                    p \in WithdrawPhoneCells}] :
               withdraw_file = DataFrame(WithdrawHeaders, rows)

InitMerge ==
    /\ pc = "merge"
    /\ merge_returns = <<>>
    /\ NoScoring
    /\ NoUpload
    /\ NoHelper
    /\ (InitMergeColumns \/ InitMergeContent)

\* show_warning_stats.py lines 59-63: output_file is withdraw_file, written
\* only when the merge did not raise
Run_show_warning_stats ==
    /\ pc = "merge"
    /\ Len(merge_returns) < MaxRuns
    /\ LET returned ==
               merge_warning_count_to_withdraw_records(warning_file,
                                                       withdraw_file)
       IN  /\ merge_returns' = Append(merge_returns, returned)
           /\ withdraw_file' =
                  IF returned.raised = "none"
                  THEN save_file(returned.merged_df)
                  ELSE withdraw_file
    /\ UNCHANGED <<warning_file, pc>>
    /\ UNCHANGED <<persons, target_time, target_amount, target_location, result>>
    /\ UNCHANGED <<upload_file, processed_data, log_entries>>
    /\ UNCHANGED <<helper_call, helper_result>>

NextMerge == Run_show_warning_stats

SpecMerge == InitMerge /\ [][NextMerge]_vars

(***************************************************************************)
(* The normalizer of uploaded tables (DataProcessor.process_uploaded_data).*)
(* Besides NaN, text and integers a cell can be a float with an integral   *)
(* value or the float inf.  The number texts explored are digits with an   *)
(* optional sign, 'inf' and 'nan'.                                         *)
(***************************************************************************)
Float(v) == [t |-> "float", v |-> v]

Inf == [t |-> "inf"]

\* an exception in place of a value
Raised(exception) == [t |-> "raised", exception |-> exception]

\* str() of any cell
cell_str(cell) ==
    IF cell.t = "float" THEN Decimal(cell.v) \o <<".", "0">>
    ELSE IF cell.t = "inf" THEN <<"i", "n", "f">>
         ELSE str(cell)

\* str.lower() on the letters that occur
Lower(s) ==
    [i \in 1..Len(s) |->
        CASE s[i] = "I" -> "i" [] s[i] = "N" -> "n" [] s[i] = "F" -> "f"
          [] s[i] = "A" -> "a" [] s[i] = "Y" -> "y" [] s[i] = "E" -> "e"
          [] s[i] = "S" -> "s" [] s[i] = "T" -> "t" [] s[i] = "R" -> "r"
          [] s[i] = "U" -> "u" [] s[i] = "L" -> "l" [] s[i] = "D" -> "d"
          [] OTHER -> s[i]]

IsDigits(s) == s # <<>> /\ \A i \in 1..Len(s) : isdigit(s[i])

RECURSIVE NumberOf(_)
NumberOf(digits) ==
    LET value(c) == CHOOSE v \in 0..9 : Decimal(v) = <<c>>
    IN  IF digits = <<>> THEN 0
        ELSE 10 * NumberOf(SubSeq(digits, 1, Len(digits) - 1))
             + value(digits[Len(digits)])

\* float(text) of a text without surrounding blanks: ValueError for a text
\* that spells no number
float_of_text(text) ==
    LET negative == text # <<>> /\ Head(text) = "-"
        unsigned == IF negative THEN Tail(text) ELSE text
    IN  IF IsDigits(unsigned)
        THEN Float(IF negative THEN -NumberOf(unsigned)
                   ELSE NumberOf(unsigned))
        ELSE IF Lower(unsigned) = <<"i", "n", "f">> THEN Inf
        ELSE IF Lower(unsigned) = nan_text THEN NaN
        ELSE Raised("ValueError")

\* float(cell): a float cell, or what float() makes of the trimmed text
float_of(cell) ==
    IF cell.t \in {"num", "float"} THEN Float(cell.v)
    ELSE IF cell.t \in {"inf", "nan"} THEN cell
    ELSE float_of_text(Strip(cell.s))

\* int(value) of a float: int() of inf raises OverflowError, of nan
\* ValueError; an exception of float() passes through
int_of(value) ==
    IF value.t = "float" THEN Num(value.v)
    ELSE IF value.t = "inf" THEN Raised("OverflowError")
    ELSE Raised("ValueError")

\* int(float(cell))
int_of_float(cell) == int_of(float_of(cell))

\* lines 24-42: the fields in dict order, each with its keywords in order
field_mapping ==
    <<[field |-> "id_number",
       keywords |-> <<ShenFenZhengHao, <<"shen", "fen">> \o HaoMa,
                      <<"I", "D">>>>],
      [field |-> "name",
       keywords |-> <<<<"xing4", "ming">>,
                      <<"yong", "hu", "xing4", "ming">>,
                      <<"ke", "hu", "xing4", "ming">>,
                      <<"zhen", "shi5", "xing4", "ming">>>>],
      [field |-> "phone",
       keywords |-> <<DianHua \o HaoMa, <<"shou3", "ji">> \o HaoMa,
                      <<"lian", "xi">> \o DianHua, DianHua, ShouJiHao,
                      LianXiFangShi>>],
      [field |-> "withdraw_date",
       keywords |-> <<<<"fa", "sheng1", "ri", "qi1">>,
                      <<"jiao", "yi4", "ri", "qi1">>, <<"ri", "qi1">>>>],
      [field |-> "withdraw_time",
       keywords |-> <<<<"fa", "sheng1", "shi2", "jian">>,
                      <<"jiao", "yi4", "shi2", "jian">>,
                      <<"shi2", "jian">>>>],
      [field |-> "amount",
       keywords |-> <<<<"qu", "xian", "jin", "e", "he", "ji4">>,
                      <<"qu", "xian", "jin", "e">>, <<"jin", "e">>,
                      <<"qu", "xian", "he", "ji4">>>>],
      [field |-> "location",
       keywords |-> <<<<"ye", "wu", "fa", "sheng1", "di", "wang", "dian3",
                        "ming", "cheng">>,
                      <<"wang", "dian3", "ming", "cheng">>,
                      <<"fa", "sheng1", "di", "dian3">>, <<"di", "dian3">>>>],
      [field |-> "transaction_count",
       keywords |-> <<<<"qu", "xian", "ci", "shu">>,
                      <<"jiao", "yi4", "ci", "shu">>, <<"ci", "shu">>>>],
      [field |-> "gender",
       keywords |-> <<<<"xing2", "bie">>,
                      <<"xing2", "bie", "(", "0", "nv", SP, "1", "nan2",
                        ")">>>>],
      [field |-> "age",
       keywords |-> <<<<"nian", "ling">>>>],
      [field |-> "has_history_warning",
       keywords |-> <<<<"qu", "xian", "yu", "jing", "(", "0", "fou", SP, "1",
                        "shi4", ")">>,
                      <<"yu", "jing">>, <<"qu", "xian", "yu", "jing">>>>],
      [field |-> "has_history_fraud",
       keywords |-> <<<<"bei", "pian", "li", "shi3">>,
                      <<"bei", "pian", "shi3">>,
                      <<"zha", "pian", "li", "shi3">>>>],
      [field |-> "has_special_comm",
       keywords |-> <<<<"xiao", "zhong", "liao", "tian">>,
                      <<"xiao", "zhong", "tong", "lian2">>,
                      <<"te", "shu2", "liao", "tian">>>>],
      [field |-> "has_adult_app",
       keywords |-> <<<<"she", "huang", "ruan", "jian4">>,
                      <<"she", "huang", "A", "P", "P">>,
                      <<"cheng2", "ren", "ruan", "jian4">>>>],
      [field |-> "warning_count",
       keywords |-> <<YuJingCiShu>>],
      [field |-> "fraud_type",
       keywords |-> <<YiSiZhaPianLeiXing, ZhaPianLeiXing, LeiXing>>]>>

\* lines 249-257: the fields for which a column was found
column_map(columns) ==
    LET col(k) == find_column_by_keywords(columns, field_mapping[k].keywords)
        found == {k \in 1..Len(field_mapping) : col(k) # NoColumn}
    IN  [field \in {field_mapping[k].field : k \in found} |->
            col(CHOOSE k \in found : field_mapping[k].field = field)]

\* lines 44-51 and 64-77: the districts in dict order with their keywords
location_keywords ==
    <<[location |-> DingHai, keywords |-> <<DingHai>>],
      [location |-> PuTuo, keywords |-> <<PuTuo>>],
      [location |-> DaiShan, keywords |-> <<DaiShan>>],
      [location |-> ShengSi, keywords |-> <<ShengSi>>],
      [location |-> QiTa,
       keywords |-> <<QiTa, <<"qi", "ta1">>, <<"wei", "zhi">>>>]>>

\* the districts one of whose keywords is in the text
location_hits(location_str) ==
    {k \in 1..Len(location_keywords) :
        \E j \in 1..Len(location_keywords[k].keywords) :
            Contains(location_keywords[k].keywords[j], location_str)}

\* the district named last in the table wins
extract_location_last_match(location_text) ==
    IF \/ ~pd_notna(location_text)
       \/ location_text = Text(<<>>)
       \/ location_hits(cell_str(location_text)) = {}
    THEN QiTa
    ELSE location_keywords[SetMax(location_hits(cell_str(location_text)))].location

\* lines 64-77: `pd.isna(location_text) or not location_text` gives 其他, as
\* does a text without keyword
extract_location(location_text) ==
    IF \/ ~pd_notna(location_text)
       \/ location_text = Text(<<>>)
       \/ location_text \in {Num(0), Float(0)}
       \/ location_hits(cell_str(location_text)) = {}
    THEN QiTa
    ELSE location_keywords[SetMin(location_hits(cell_str(location_text)))].location

\* lines 79-95
convert_gender(gender_value) ==
    IF gender_value.t = "nan" THEN "unknown"
    ELSE IF gender_value.t \in {"num", "float", "inf"}
    THEN (IF gender_value.t # "inf" /\ gender_value.v = 0
          THEN "female" ELSE "male")
    ELSE LET gender_str == Strip(gender_value.s)
         IN  IF gender_str \in {<<"nv">>, <<"F">>,
                                <<"F", "e", "m", "a", "l", "e">>, <<"0">>}
             THEN "female"
             ELSE IF gender_str \in {<<"nan2">>, <<"M">>,
                                     <<"M", "a", "l", "e">>, <<"1">>}
             THEN "male"
             ELSE "unknown"

\* the affirmative texts without 'y'
convert_boolean_field_without_y(value) ==
    IF value.t = "nan" THEN FALSE
    ELSE IF value.t \in {"num", "float", "inf"}
    THEN value.t = "inf" \/ value.v # 0
    ELSE Lower(Strip(value.s)) \in
             {<<"1">>, <<"shi4">>, <<"t", "r", "u", "e">>, <<"y", "e", "s">>,
              <<"you">>}

\* lines 97-108
convert_boolean_field(value) ==
    IF value.t = "nan" THEN FALSE
    ELSE IF value.t \in {"num", "float", "inf"}
    THEN value.t = "inf" \/ value.v # 0
    ELSE Lower(Strip(value.s)) \in
             {<<"1">>, <<"shi4">>, <<"t", "r", "u", "e">>, <<"y", "e", "s">>,
              <<"y">>, <<"you">>}

\* lines 120, 135: the texts that count as no name and no phone
absent_tokens ==
    {<<>>, nan_text, <<"N", "a", "N">>, <<"n", "u", "l", "l">>,
     <<"N", "U", "L", "L">>}

\* the last four characters of a text
Last4(s) == IF Len(s) <= 4 THEN s ELSE SubSeq(s, Len(s) - 3, Len(s))

\* lines 110-149; name_value and phone_value are None (here NaN) when the
\* table has no such column.  str(int(phone_value)) of the float inf raises.
generate_user_name(name_value, phone_value, id_number) ==
    LET name_str == IF name_value.t = "nan" THEN <<>>
                    ELSE Strip(cell_str(name_value))
        has_name == name_str \notin absent_tokens
        phone_str ==
            IF phone_value.t = "nan" THEN <<>>
            ELSE IF phone_value.t = "float" THEN Decimal(phone_value.v)
            ELSE Strip(cell_str(phone_value))
        has_phone == phone_str \notin absent_tokens
    IN  IF phone_value.t = "inf" THEN Raised("OverflowError")
        ELSE IF has_name /\ has_phone
        THEN Text(name_str \o <<SP>> \o phone_str)
        ELSE IF has_phone THEN Text(phone_str)
        ELSE IF has_name THEN Text(name_str)
        ELSE Text(<<"yong", "hu">> \o Last4(id_number))

\* the date and time literals that parse, each written as one character,
\* with the minute they denote
DateLiterals == {"2024-01-01", "2024-01-02"}

TimeLiterals == {"08:30"}

minutes_of(literal) ==
    CASE literal = "2024-01-01" -> 0
      [] literal = "2024-01-02" -> 1440
      [] literal = "08:30" -> 510

\* lines 151-190: the datetime, or None with a warning logged when neither
\* strptime nor pd.to_datetime parses the text.  time_value is None (here
\* NaN) when the table has no time column.
parse_datetime(date_value, time_value) ==
    LET date_str == cell_str(date_value)
        time_str == cell_str(time_value)
        is_date == Len(date_str) = 1 /\ date_str[1] \in DateLiterals
        is_time == Len(time_str) = 1 /\ time_str[1] \in TimeLiterals
    IN  IF date_value.t = "nan" THEN [value |-> None, warned |-> FALSE]
        ELSE IF time_value.t = "nan"
        THEN (IF date_value.t = "str" /\ is_date
              THEN [value |-> Num(minutes_of(date_str[1])), warned |-> FALSE]
              ELSE [value |-> None, warned |-> TRUE])
        ELSE IF date_value.t = "str" /\ is_date /\ time_value.t = "str" /\ is_time
        THEN [value |-> Num(minutes_of(date_str[1]) + minutes_of(time_str[1])),
              warned |-> FALSE]
        ELSE [value |-> None, warned |-> TRUE]

\* the cell of a row under a field's column, None (here NaN) without column
cell_of(row, columns, field) ==
    IF field \in DOMAIN columns THEN row[columns[field]] ELSE NaN

\* the "not is_null and str(value).strip() != ''" test of lines 339, 409, 431
is_filled(cell) == cell.t # "nan" /\ Strip(cell_str(cell)) # <<>>

\* lines 396-416, 418-439, 492-503: int(float(cell)) inside
\* try / except (ValueError, TypeError), which lets OverflowError through
int_field(cell, default) ==
    LET value == int_of_float(cell)
    IN  IF value = Raised("ValueError") THEN default ELSE value

IsRaised(value) == "t" \in DOMAIN value /\ value.t = "raised"

\* a negative amount is put to 0.0
amount_of_clamped(amount_value) ==
    IF is_filled(amount_value) /\ float_of(amount_value).t = "float"
    THEN Float(SetMax({0, float_of(amount_value).v}))
    ELSE Float(0)

\* lines 325-346: float(cell), 0.0 for a cell that is null or blank and
\* when float() raises ValueError; amount_value is NaN without the column
amount_of(amount_value) ==
    IF is_filled(amount_value)
    THEN (IF float_of(amount_value).t = "raised" THEN Float(0)
          ELSE float_of(amount_value))
    ELSE Float(0)

\* the fraud-history cell alone decides
history_warning_overwritten(warning_value, fraud_value) ==
    convert_boolean_field(fraud_value)

\* lines 441-490 for has_history_warning: False at first, set from the
\* history-warning cell when there is one, then or-ed with the fraud-history
\* cell when there is one (a cell is NaN here when its column is not there)
history_warning(warning_value, fraud_value) ==
    \/ convert_boolean_field(warning_value)
    \/ convert_boolean_field(fraud_value)

\* lines 288-518 for one row with an ID: the record, or the exception that
\* leaves the try body of the row
person_of(row, columns) ==
    LET id_number == cell_str(row[columns["id_number"]])
        name == generate_user_name(cell_of(row, columns, "name"),
                                   cell_of(row, columns, "phone"), id_number)
        when == IF "withdraw_date" \in DOMAIN columns
                THEN parse_datetime(cell_of(row, columns, "withdraw_date"),
                                    cell_of(row, columns, "withdraw_time"))
                ELSE [value |-> None, warned |-> FALSE]
        amount_value == cell_of(row, columns, "amount")
        amount == amount_of(amount_value)
        location_value == cell_of(row, columns, "location")
        location == extract_location(IF location_value.t = "nan" THEN Text(<<>>)
                                     ELSE Text(cell_str(location_value)))
        age_value == cell_of(row, columns, "age")
        age == IF is_filled(age_value) THEN int_field(age_value, None)
               ELSE None
        count_value == cell_of(row, columns, "transaction_count")
        transaction_count ==
            IF is_filled(count_value) THEN int_field(count_value, Num(1))
            ELSE Num(1)
        warning_count_value == cell_of(row, columns, "warning_count")
        warning_count ==
            IF warning_count_value.t = "nan" THEN Num(0)
            ELSE int_field(warning_count_value, Num(0))
        fraud_type_value == cell_of(row, columns, "fraud_type")
        raised == \/ IsRaised(name)
                  \/ IsRaised(age)
                  \/ IsRaised(transaction_count)
                  \/ IsRaised(warning_count)
        fields ==
            [id                  |-> id_number,
             id_number           |-> id_number,
             name                |-> name.s,
             account             |-> <<"*", "*", "*", "*">> \o Last4(id_number),
             status              |-> "success",
             card_type           |-> "savings",
             risk_level          |-> "low",
             amount              |-> amount,
             location            |-> location,
             gender              |-> convert_gender(cell_of(row, columns, "gender")),
             age                 |-> age,
             transaction_count   |-> transaction_count.v,
             has_history_warning |->
                 history_warning(cell_of(row, columns, "has_history_warning"),
                                 cell_of(row, columns, "has_history_fraud")),
             has_special_comm    |->
                 convert_boolean_field(cell_of(row, columns, "has_special_comm")),
             has_adult_app       |->
                 convert_boolean_field(cell_of(row, columns, "has_adult_app")),
             has_investment_app  |-> FALSE,
             warning_count       |-> warning_count.v,
             fraud_type          |->
                 IF fraud_type_value.t = "nan" THEN <<>>
                 ELSE Strip(cell_str(fraud_type_value))]
    IN  IF raised
        THEN [raised |-> TRUE, warned |-> when.warned /\ ~IsRaised(name)]
        ELSE [raised |-> FALSE,
              warned |-> when.warned,
              person_data |->
                  fields @@ (IF when.value = None THEN <<>>
                             ELSE [withdraw_time |-> when.value.v])]

\* line 280: is_null or str(id_number).strip() == ''
id_is_blank(id_cell) == id_cell.t = "nan" \/ Strip(cell_str(id_cell)) = <<>>

\* lines 326-331 and 518-526: the record appended and the entries logged for
\* row `index`, given what its try body came to
row_result(person, index) ==
    LET date_warning ==
            IF person.warned
            THEN <<[level |-> "warning", what |-> "datetime not parsed",
                    row |-> index]>>
            ELSE <<>>
    IN  IF person.raised
        THEN [records |-> <<>>,
              logged |-> date_warning \o
                         <<[level |-> "error", what |-> "row failed",
                            row |-> index]>>]
        ELSE [records |-> <<person.person_data>>,
              logged |-> date_warning]

\* lines 262-526: what the loop does with row `index`: the records it
\* appends and the warnings and errors it logs
row_outcome(row, index, columns) ==
    IF "id_number" \notin DOMAIN columns
    THEN [records |-> <<>>,
          logged |-> <<[level |-> "error", what |-> "no id column",
                        row |-> index]>>]
    ELSE IF id_is_blank(row[columns["id_number"]])
    THEN [records |-> <<>>,
          logged |-> <<[level |-> "warning", what |-> "id blank, skipped",
                        row |-> index]>>]
    ELSE row_result(person_of(row, columns), index)

\* the loop over rows i..Len(rows)
RECURSIVE process_rows(_, _, _)
process_rows(rows, i, columns) ==
    IF i > Len(rows) THEN [records |-> <<>>, logged |-> <<>>]
    ELSE LET first == row_outcome(rows[i], i, columns)
             rest == process_rows(rows, i + 1, columns)
         IN  [records |-> first.records \o rest.records,
              logged |-> first.logged \o rest.logged]

\* lines 220-529; the file exists and is a table
process_uploaded_data(df) ==
    process_rows(df.rows, 1, column_map(df.columns))

(***************************************************************************)
(* The uploads explored: tables of one row under every choice and order of *)
(* up to MaxHeaders headers that do or do not name the ID, and tables with *)
(* every column and up to MaxUploadRows rows, well formed but for the ID   *)
(* cells and one other cell of one row.                                    *)
(***************************************************************************)
MaxHeaders == 3
MaxUploadRows == 2

HeaderChoices ==
    {ShenFenZhengHao, <<"shen", "fen">> \o HaoMa, <<"I", "D">>, <<"i", "d">>,
     <<"ke", "hu", "I", "D">>, <<"xing4", "ming">>}

IsDistinct(seq) == \A i, j \in 1..Len(seq) : seq[i] = seq[j] => i = j

InitUploadHeaders ==
    \E n \in 1..MaxHeaders :
        \E columns \in [1..n -> HeaderChoices] :
            /\ IsDistinct(columns)
            /\ upload_file =
                   DataFrame(columns,
                             <<[c \in Range(columns) |->
                                   Text(Decimal(CHOOSE i \in 1..n :
                                                    columns[i] = c))]>>)

\* one header per field, in the order of field_mapping
FullHeaders ==
    <<ShenFenZhengHao, <<"xing4", "ming">>, DianHua \o HaoMa,
      <<"fa", "sheng1", "ri", "qi1">>, <<"fa", "sheng1", "shi2", "jian">>,
      <<"qu", "xian", "jin", "e">>, <<"wang", "dian3", "ming", "cheng">>,
      <<"qu", "xian", "ci", "shu">>, <<"xing2", "bie">>, <<"nian", "ling">>,
      <<"qu", "xian", "yu", "jing">>, <<"bei", "pian", "li", "shi3">>,
      <<"xiao", "zhong", "liao", "tian">>, <<"she", "huang", "ruan", "jian4">>,
      YuJingCiShu, YiSiZhaPianLeiXing>>

\* a well-formed row but for its ID cell
PlainRow(id) ==
    [c \in Range(FullHeaders) |->
        CASE c = FullHeaders[1] -> id
          [] c = FullHeaders[2] -> Text(<<"zhang", "san">>)
          [] c = FullHeaders[3] -> Num(1)
          [] c = FullHeaders[4] -> Text(<<"2024-01-01">>)
          [] c = FullHeaders[5] -> Text(<<"08:30">>)
          [] c = FullHeaders[6] -> Num(100)
          [] c = FullHeaders[7] -> Text(DingHai \o <<"zhi", "hang">>)
          [] c = FullHeaders[8] -> Num(2)
          [] c = FullHeaders[9] -> Num(1)
          [] c = FullHeaders[10] -> Num(30)
          [] c = FullHeaders[15] -> Num(0)
          [] c = FullHeaders[16] -> NaN
          [] OTHER -> Num(0)]

IdCells == {NaN, Text(<<SP>>), Text(<<"7", SP>>), Num(8)}

OddCells ==
    {NaN, Text(<<SP>>), Text(<<"x">>), Text(<<"i", "n", "f">>), Inf, Num(-1),
     Text(<<"N", "A", "N">>), Text(<<SP, "-", "2", "5">>)}

\* the rows that are well formed but for the ID cell and at most one other
UploadRows ==
    {PlainRow(id) : id \in IdCells}
    \cup {[PlainRow(id) EXCEPT ![FullHeaders[k]] = odd] :
             id \in IdCells, k \in 2..Len(FullHeaders), odd \in OddCells}

\* the empty table, and the tables with one row of UploadRows at any place
\* among well-formed rows with a missing or a numeric ID
InitUploadRows ==
    \/ upload_file = DataFrame(FullHeaders, <<>>)
    \/ \E n \in 1..MaxUploadRows :
           \E k \in 1..n :
               \E rows \in [1..n -> {PlainRow(id) : id \in {NaN, Num(8)}}] :
                   \E row \in UploadRows :
                       upload_file =
                           DataFrame(FullHeaders, [rows EXCEPT ![k] = row])

\* tables of one row with an ID and any of the history-warning and
\* fraud-history columns, in either order
InitUploadFlags ==
    \E columns \in {<<>>, <<FullHeaders[11]>>, <<FullHeaders[12]>>,
                     <<FullHeaders[11], FullHeaders[12]>>,
                     <<FullHeaders[12], FullHeaders[11]>>} :
        \E row \in [Range(columns) ->
                        {NaN, Num(0), Num(1), Text(<<"shi4">>),
                         Text(<<"fou">>), Text(<<"y">>)}] :
            upload_file =
                DataFrame(<<FullHeaders[1]>> \o columns,
                          <<[c \in {FullHeaders[1]} \cup Range(columns) |->
                                IF c = FullHeaders[1] THEN Text(<<"7">>)
                                ELSE row[c]]>>)

InitNormalize ==
    /\ pc = "process"
    /\ processed_data = <<>>
    /\ log_entries = <<>>
    /\ NoScoring
    /\ NoMerge
    /\ NoHelper
    /\ (InitUploadHeaders \/ InitUploadRows \/ InitUploadFlags)

Call_process_uploaded_data ==
    /\ pc = "process"
    /\ LET returned == process_uploaded_data(upload_file)
       IN  /\ processed_data' = returned.records
           /\ log_entries' = returned.logged
    /\ pc' = "processed"
    /\ UNCHANGED <<upload_file, helper_call, helper_result>>
    /\ UNCHANGED <<persons, target_time, target_amount, target_location, result>>
    /\ UNCHANGED <<warning_file, withdraw_file, merge_returns>>

NextNormalize == Call_process_uploaded_data

SpecNormalize == InitNormalize /\ [][NextNormalize]_vars

(***************************************************************************)
(* Direct calls of DataProcessor's conversions: generate_user_name,        *)
(* convert_boolean_field and extract_location, each on arguments drawn     *)
(* from the sets below.                                                    *)
(***************************************************************************)
MaxWords == 3

\* 'nan' and 'null' in several letter cases
SentinelTexts ==
    {nan_text, <<"N", "a", "N">>, <<"N", "a", "n">>, <<"N", "A", "N">>,
     <<"n", "u", "l", "l">>, <<"N", "U", "L", "L">>, <<"N", "u", "l", "l">>,
     <<"n", "U", "L", "L">>}

NameCells ==
    {NaN, Text(<<>>), Text(<<SP>>), Text(<<"zhang", "san">>),
     Text(<<SP, "zhang", "san", SP>>), Num(7), Text(<<"n", "a">>)}
    \cup {Text(s) : s \in SentinelTexts}
    \cup {Text(<<SP>> \o s \o <<SP>>) : s \in SentinelTexts}

PhoneCells ==
    {NaN, Text(<<>>), Text(<<SP>>), Num(138), Float(138), Inf,
     Text(<<"1", "3", "8">>), Text(<<SP, "1", "3", "8", SP>>)}
    \cup {Text(s) : s \in SentinelTexts}

IdTexts ==
    {<<"1", "1", "0", "1", "0", "1", "1", "9", "9", "0", "0", "1", "0", "1",
       "1", "2", "3", "4">>,
     <<"1", "2">>}

BooleanCells ==
    {NaN, Num(0), Num(1), Num(2), Num(-1), Float(0), Float(1), Inf}
    \cup {Text(s) : s \in {<<>>, <<SP>>, <<"1">>, <<"0">>, <<"2">>,
                           <<SP, "1", SP>>, <<"1", "1">>,
                           <<"y", "e", "s">>, <<"Y", "E", "S">>,
                           <<"Y", "e", "s">>, <<SP, "y", "e", "s">>,
                           <<"t", "r", "u", "e">>, <<"T", "r", "u", "e">>,
                           <<"y">>, <<"Y">>, <<"n">>, <<"n", "o">>,
                           <<"y", "e">>, <<"you">>, <<"shi4">>,
                           <<"shi4", SP>>, <<"shi4", "de">>, <<"fou">>,
                           <<"mei", "you">>}}

\* the texts of up to n words
RECURSIVE Phrases(_, _)
Phrases(words, n) ==
    IF n = 0 THEN {<<>>}
    ELSE LET shorter == Phrases(words, n - 1)
         IN  shorter \cup {w \o s : w \in words, s \in shorter}

LocationWords ==
    {DingHai, PuTuo, DaiShan, ShengSi, QiTa, <<"qi", "ta1">>,
     <<"wei", "zhi">>, <<"ding">>, <<"hai">>, <<"zhi", "hang">>, <<SP>>}

LocationCells ==
    {NaN, Num(0), Num(5)} \cup {Text(s) : s \in Phrases(LocationWords, MaxWords)}

InitHelper ==
    /\ pc = "helper"
    /\ helper_result = None
    /\ NoScoring
    /\ NoMerge
    /\ NoUpload
    /\ \/ \E name_value \in NameCells, phone_value \in PhoneCells,
             id_number \in IdTexts :
              helper_call = [method |-> "generate_user_name",
                             args |-> <<name_value, phone_value, id_number>>]
       \/ \E value \in BooleanCells :
              helper_call = [method |-> "convert_boolean_field",
                             args |-> <<value>>]
       \/ \E location_text \in LocationCells :
              helper_call = [method |-> "extract_location",
                             args |-> <<location_text>>]

Call_generate_user_name ==
    /\ pc = "helper"
    /\ helper_call.method = "generate_user_name"
    /\ helper_result' = generate_user_name(helper_call.args[1],
                                           helper_call.args[2],
                                           helper_call.args[3])
    /\ pc' = "helped"
    /\ UNCHANGED helper_call
    /\ UNCHANGED <<persons, target_time, target_amount, target_location, result>>
    /\ UNCHANGED <<warning_file, withdraw_file, merge_returns>>
    /\ UNCHANGED <<upload_file, processed_data, log_entries>>

Call_convert_boolean_field ==
    /\ pc = "helper"
    /\ helper_call.method = "convert_boolean_field"
    /\ helper_result' = convert_boolean_field(helper_call.args[1])
    /\ pc' = "helped"
    /\ UNCHANGED helper_call
    /\ UNCHANGED <<persons, target_time, target_amount, target_location, result>>
    /\ UNCHANGED <<warning_file, withdraw_file, merge_returns>>
    /\ UNCHANGED <<upload_file, processed_data, log_entries>>

Call_extract_location ==
    /\ pc = "helper"
    /\ helper_call.method = "extract_location"
    /\ helper_result' = extract_location(helper_call.args[1])
    /\ pc' = "helped"
    /\ UNCHANGED helper_call
    /\ UNCHANGED <<persons, target_time, target_amount, target_location, result>>
    /\ UNCHANGED <<warning_file, withdraw_file, merge_returns>>
    /\ UNCHANGED <<upload_file, processed_data, log_entries>>

NextHelper ==
    \/ Call_generate_user_name
    \/ Call_convert_boolean_field
    \/ Call_extract_location

SpecHelper == InitHelper /\ [][NextHelper]_vars

(***************************************************************************)
(* Properties.  They read the returned dict: every ranked entry echoes the *)
(* record it was computed from (id_number, amount, gender, flags, ...).    *)
(***************************************************************************)
Returned == pc = "returned"

Ranked == IF Returned THEN result.scored_persons ELSE <<>>

\* the input record a ranked entry was computed from
InputOf(e) == persons[CHOOSE k \in 1..Len(persons) : persons[k].id_number = e.id_number]

Base(e) == e.score_details.base_scores

Additional(e) == e.score_details.additional_scores

\* C1: the weight table is chosen by the clue's amount alone: below 30000 the
\* low table, from 30000 and below 100000 the medium table, from 100000 the
\* high table; the record's own amount plays no part.  The table in use shows
\* in the bucket reported and in the scores of a male and of a female record
\* (15/0 low, 5/5 medium, 0/15 high).
C1_BucketFromClueAmount ==
    Returned =>
        LET bucket == IF target_amount < 30000 THEN "low"
                      ELSE IF target_amount < 100000 THEN "medium"
                      ELSE "high"
        IN  /\ result.amount_category = bucket
            /\ \A i \in 1..Len(Ranked) :
                   LET e == Ranked[i]
                   IN  /\ e.amount_category = bucket
                       /\ e.gender = "male" =>
                              Additional(e).gender_score =
                                  (IF bucket = "low" THEN 15
                                   ELSE IF bucket = "medium" THEN 5 ELSE 0)
                       /\ e.gender = "female" =>
                              Additional(e).gender_score =
                                  (IF bucket = "low" THEN 0
                                   ELSE IF bucket = "medium" THEN 5 ELSE 15)

\* a male record whose own amount is in the high bucket, scored against a
\* clue of 29999 (low table) and against one of 30000 (medium table)
C1_Witness ==
    /\ Returned
    /\ Len(Ranked) = 1
    /\ Ranked[1].gender = "male"
    /\ Ranked[1].amount = 100000
    /\ target_amount = 30000
    /\ Ranked[1].amount_category = "medium"
    /\ Additional(Ranked[1]).gender_score = 5

\* C2: gender_score, app_score and history_warning_score are exactly the
\* weights of the clue's bucket: low 15 male, 20 adult-app, 10 history;
\* medium 5 male or 5 female, 10 adult-app plus 10 special-comm, 15 history;
\* high 15 female, 20 special-comm plus 15 investment-app, 10 history; any
\* other gender or flag adds nothing.
C2_BucketWeights ==
    \A i \in 1..Len(Ranked) :
        LET e == Ranked[i]
            a == Additional(e)
            w(flag, points) == IF flag THEN points ELSE 0
        IN  /\ target_amount < 30000 =>
                /\ a.gender_score = w(e.gender = "male", 15)
                /\ a.app_score = w(e.has_adult_app, 20)
                /\ a.history_warning_score = w(e.has_history_warning, 10)
            /\ (target_amount >= 30000 /\ target_amount < 100000) =>
                /\ a.gender_score = w(e.gender \in {"male", "female"}, 5)
                /\ a.app_score = w(e.has_adult_app, 10) + w(e.has_special_comm, 10)
                /\ a.history_warning_score = w(e.has_history_warning, 15)
            /\ target_amount >= 100000 =>
                /\ a.gender_score = w(e.gender = "female", 15)
                /\ a.app_score =
                       w(e.has_special_comm, 20) + w(e.has_investment_app, 15)
                /\ a.history_warning_score = w(e.has_history_warning, 10)

\* a medium-bucket record with every flag set
C2_Witness ==
    /\ Returned
    /\ Len(Ranked) = 1
    /\ target_amount = 99999
    /\ Ranked[1].gender = "female"
    /\ Ranked[1].has_adult_app /\ Ranked[1].has_special_comm
    /\ Ranked[1].has_history_warning /\ Ranked[1].has_investment_app
    /\ Additional(Ranked[1]).app_score = 20
    /\ Additional(Ranked[1]).history_warning_score = 15

\* C3: time_score steps down with the distance d between clue time and
\* withdraw_time, each boundary belonging to the higher score: d <= 1h 40,
\* <= 3h 35, <= 6h 30, <= 12h 25, <= 24h 20, <= 48h 15, <= 72h 10, beyond 5;
\* a record without withdraw_time scores 0.
C3_TimeScoreSteps ==
    \A i \in 1..Len(Ranked) :
        LET p == InputOf(Ranked[i])
            ts == Base(Ranked[i]).time_score
            d == IF target_time >= p.withdraw_time
                 THEN target_time - p.withdraw_time
                 ELSE p.withdraw_time - target_time
            In(lo, hi) == 60 * lo < d /\ d <= 60 * hi
        IN  IF "withdraw_time" \notin DOMAIN p THEN ts = 0
            ELSE /\ d <= 60 => ts = 40
                 /\ In(1, 3) => ts = 35
                 /\ In(3, 6) => ts = 30
                 /\ In(6, 12) => ts = 25
                 /\ In(12, 24) => ts = 20
                 /\ In(24, 48) => ts = 15
                 /\ In(48, 72) => ts = 10
                 /\ d > 60 * 72 => ts = 5
                 /\ ts \in {5, 10, 15, 20, 25, 30, 35, 40}

\* a record exactly 72 hours before the clue still scores 10
C3_Witness ==
    /\ Returned
    /\ Len(Ranked) = 1
    /\ "withdraw_time" \in DOMAIN persons[1]
    /\ target_time - persons[1].withdraw_time = 4320
    /\ Base(Ranked[1]).time_score = 10

\* the score the tier table gives a relative difference diff/base (base > 0)
TierOfRatio(diff, base) ==
    LET In(lo, hi) == lo * base < 100 * diff /\ 100 * diff <= hi * base
    IN  CASE 100 * diff <= 5 * base -> 40
          [] In(5, 10) -> 35
          [] In(10, 20) -> 30
          [] In(20, 30) -> 25
          [] In(30, 50) -> 20
          [] In(50, 70) -> 15
          [] In(70, 100) -> 10
          [] 100 * diff > 100 * base -> 5

Distance(a, b) == IF a >= b THEN a - b ELSE b - a

Larger(a, b) == IF a >= b THEN a ELSE b

\* C4 as stated: amount_score is the tier of
\* r = |clue - record| / max(clue, record) for every record amount other than
\* 0 (r <= 5% 40, <= 10% 35, <= 20% 30, <= 30% 25, <= 50% 20, <= 70% 15,
\* <= 100% 10, beyond 5), and 0 for a record amount of 0.  Read where r is
\* defined and non-negative, that is max(clue, record) > 0.
C4_AsStated ==
    \A i \in 1..Len(Ranked) :
        LET e == Ranked[i]
        IN  /\ e.amount = 0 => Base(e).amount_score = 0
            /\ (e.amount # 0 /\ Larger(target_amount, e.amount) > 0) =>
                   Base(e).amount_score =
                       TierOfRatio(Distance(target_amount, e.amount),
                                   Larger(target_amount, e.amount))

\* C4 (amended): amount_score is the tier of
\* r = |clue - record| / max(clue, record) for every record amount above 0,
\* each boundary belonging to the higher score (r <= 5% 40, <= 10% 35,
\* <= 20% 30, <= 30% 25, <= 50% 20, <= 70% 15, <= 100% 10, beyond 5), and 0
\* for every record amount of 0 or less.
C4_AmountScoreSteps ==
    \A i \in 1..Len(Ranked) :
        LET e == Ranked[i]
        IN  /\ e.amount <= 0 => Base(e).amount_score = 0
            /\ e.amount > 0 =>
                   Base(e).amount_score =
                       TierOfRatio(Distance(target_amount, e.amount),
                                   Larger(target_amount, e.amount))

\* a record of negative amount scored against a positive clue: no credit
C4_Witness ==
    /\ Returned
    /\ Len(Ranked) = 1
    /\ target_amount = 100
    /\ Ranked[1].amount = -100
    /\ Base(Ranked[1]).amount_score = 0

\* C5: for positive amounts a and b, a record of amount b against a clue of
\* amount a gets the amount_score that a record of amount a gets against a
\* clue of amount b.
C5_AmountScoreSymmetric ==
    (Returned /\ Len(persons) = 1 /\ target_amount > 0 /\ persons[1].amount > 0) =>
        LET swapped == [persons[1] EXCEPT !.amount = target_amount]
        IN  Base(Ranked[1]).amount_score =
                Base(score_person_new(swapped, target_time, persons[1].amount,
                                      target_location)).amount_score

\* clue 100 against record 200: half of the larger amount either way round
C5_Witness ==
    /\ Returned
    /\ Len(persons) = 1
    /\ target_amount = 100
    /\ persons[1].amount = 200
    /\ Base(Ranked[1]).amount_score = 20

\* text[a..b] is one of the names listed in text: it holds no separator and
\* no blank at either end, and only blanks lie between it and the separator
\* (or end of text) on each side
IsListedName(text, a, b) ==
    /\ 1 <= a /\ a <= b /\ b <= Len(text)
    /\ text[a] # SP /\ text[b] # SP
    /\ \A k \in a..b : text[k] # DUN
    /\ \E i \in 1..a :
           /\ \A k \in i..(a - 1) : text[k] = SP
           /\ i = 1 \/ text[i - 1] = DUN
    /\ \E j \in b..Len(text) :
           /\ \A k \in (b + 1)..j : text[k] = SP
           /\ j = Len(text) \/ text[j + 1] = DUN

\* text[a..b] occurs in hay
OccursIn(text, a, b, hay) ==
    \E off \in 0..(Len(hay) - (b - a + 1)) :
        \A k \in 0..(b - a) : hay[off + 1 + k] = text[a + k]

RECURSIVE JoinReversed(_)
JoinReversed(names) ==
    IF Len(names) = 1 THEN names[1]
    ELSE JoinReversed(Tail(names)) \o <<DUN>> \o names[1]

\* C6: location_score is 40 for an empty or blank clue location; otherwise
\* it is 40 when one of the names listed in the clue (separated by the
\* ideographic comma) occurs in the record's location and 0 when none does;
\* it takes no other value, and listing the names in the opposite order
\* gives the same score.
C6_LocationScoreBinary ==
    \A i \in 1..Len(Ranked) :
        LET e == Ranked[i]
            ls == Base(e).location_score
            text == target_location
            blank == \A k \in 1..Len(text) : text[k] = SP
            listed == \E a \in 1..Len(text), b \in 1..Len(text) :
                          /\ IsListedName(text, a, b)
                          /\ OccursIn(text, a, b, e.location)
        IN  /\ ls \in {0, 40}
            /\ blank => ls = 40
            /\ ~blank => (ls = 40 <=> listed)
            /\ ~blank =>
                   ls = Base(score_person_new(
                                 InputOf(e), target_time, target_amount,
                                 JoinReversed(Split(Strip(text), DUN)))
                            ).location_score

\* a clue listing two districts matches a record in the second one
C6_Witness ==
    /\ Returned
    /\ Len(Ranked) = 1
    /\ target_location = <<"ding", "hai", DUN, "pu">>
    /\ Ranked[1].location = PuTuo
    /\ Base(Ranked[1]).location_score = 40

\* C7: the reported score is time_score + amount_score + location_score +
\* gender_score + app_score + history_warning_score + frequency_score of the
\* same entry, which is also total_base_score + total_additional_score.
C7_TotalIsSumOfSubScores ==
    \A i \in 1..Len(Ranked) :
        LET e == Ranked[i]
            b == Base(e)
            a == Additional(e)
        IN  /\ e.score = b.time_score + b.amount_score + b.location_score
                         + a.gender_score + a.app_score
                         + a.history_warning_score + a.frequency_score
            /\ e.score = e.score_details.total_base_score
                         + e.score_details.total_additional_score
            /\ e.score_details.total_base_score = b.total_base_score
            /\ e.score_details.total_additional_score = a.total_additional_score

\* an entry with every one of the seven sub-scores above 0
C7_Witness ==
    /\ Returned
    /\ \E i \in 1..Len(Ranked) :
           LET b == Base(Ranked[i])
               a == Additional(Ranked[i])
           IN  /\ b.time_score > 0 /\ b.amount_score > 0 /\ b.location_score > 0
               /\ a.gender_score > 0 /\ a.app_score > 0
               /\ a.history_warning_score > 0 /\ a.frequency_score > 0
               /\ Ranked[i].score =
                      b.total_base_score + a.total_additional_score

\* C8: match_level depends on the total alone: >= 100 very high, 80..99
\* high, 60..79 medium, 40..59 low, below 40 very low; entries of equal
\* total carry the same level.
C8_MatchLevelFromTotal ==
    /\ \A i \in 1..Len(Ranked) :
           LET e == Ranked[i]
           IN  /\ e.score >= 100 => e.match_level = "very_high"
               /\ (80 <= e.score /\ e.score < 100) => e.match_level = "high"
               /\ (60 <= e.score /\ e.score < 80) => e.match_level = "medium"
               /\ (40 <= e.score /\ e.score < 60) => e.match_level = "low"
               /\ e.score < 40 => e.match_level = "very_low"
    /\ \A i, j \in 1..Len(Ranked) :
           Ranked[i].score = Ranked[j].score =>
               Ranked[i].match_level = Ranked[j].match_level

\* two entries that both total exactly 80
C8_Witness ==
    /\ Returned
    /\ Len(Ranked) >= 2
    /\ Ranked[1].score = 80 /\ Ranked[1].match_level = "high"
    /\ Ranked[2].score = 80 /\ Ranked[2].match_level = "high"

\* position of a ranked entry's record in the input list
InputPosition(e) ==
    CHOOSE k \in 1..Len(persons) : persons[k].id_number = e.id_number

\* C9: the ranked list is in descending order of score, and entries of
\* equal score stand in the order their records had in the input.
C9_RankedDescendingStable ==
    \A i, j \in 1..Len(Ranked) :
        i < j =>
            /\ Ranked[i].score >= Ranked[j].score
            /\ Ranked[i].score = Ranked[j].score =>
                   InputPosition(Ranked[i]) < InputPosition(Ranked[j])

\* a batch the sort reorders, with a tie between records that differ
C9_Witness ==
    /\ Returned
    /\ Len(Ranked) = 3
    /\ Ranked[1].score > Ranked[2].score
    /\ InputPosition(Ranked[1]) = 3
    /\ Ranked[2].score = Ranked[3].score
    /\ Ranked[2].gender # Ranked[3].gender
    /\ InputPosition(Ranked[2]) = 1

\* C10: for a non-empty batch the result holds exactly one ranked entry per
\* input record, total_persons is the number of input records, and
\* top_match is the first ranked entry and no entry scores higher.
C10_OneEntryPerRecord ==
    (Returned /\ persons # <<>>) =>
        /\ Len(Ranked) = Len(persons)
        /\ result.total_persons = Len(persons)
        /\ \A k \in 1..Len(persons) :
               Cardinality({j \in 1..Len(Ranked) :
                               Ranked[j].id_number = persons[k].id_number}) = 1
        /\ \A j \in 1..Len(Ranked) :
               Ranked[j] = score_person_new(InputOf(Ranked[j]), target_time,
                                            target_amount, target_location)
        /\ result.top_match = Ranked[1]
        /\ \A j \in 1..Len(Ranked) : result.top_match.score >= Ranked[j].score

\* a batch of three whose best record was the last one submitted
C10_Witness ==
    /\ Returned
    /\ Len(persons) = 3
    /\ result.total_persons = 3
    /\ result.top_match.id_number = 3
    /\ result.top_match.score > Ranked[2].score

\* C11: score_persons called with no records returns a result (it does not
\* raise) whose total count is 0, whose ranked list is empty and whose top
\* match is none.
C11_EmptyInputGivesEmptyResult ==
    (Returned /\ persons = <<>>) =>
        /\ {"total_persons", "scored_persons", "top_match"} \subseteq
               DOMAIN result
        /\ result.total_persons = 0
        /\ result.scored_persons = <<>>
        /\ result.top_match = None

\* the call with an empty list has returned
C11_Witness ==
    /\ Returned
    /\ persons = <<>>
    /\ result.total_persons = 0
    /\ result.top_match = None

\* the complete record that agrees with person_data on the keys it has
Completed(person_data) == person_data @@ CompletePerson("male")

Lacks(person_data, key) == key \notin DOMAIN person_data

\* C12: score_person_new returns a dict with a score and a match level for
\* every record and clue (it never raises, also when the try body fails), and
\* when the record lacks an attribute only the sub-score that depends on it
\* contributes zero: a missing withdraw_time zeroes time_score, a missing
\* amount amount_score, a missing location location_score (when the clue names
\* a place), a missing gender gender_score, a missing flag that flag's share
\* of app_score or history_warning_score, a missing transaction_count
\* frequency_score; every other sub-score equals that of the complete record.
C12_MissingAttributeDegradesOnlyItsScore ==
    Returned =>
        /\ Len(Ranked) = Len(persons)
        /\ \A i \in 1..Len(Ranked) :
               LET e == Ranked[i]
                   p == persons[i]
                   full == score_person_new(Completed(p), target_time,
                                            target_amount, target_location)
                   flagsOff ==
                       score_person_new(
                           [key \in {"has_adult_app", "has_special_comm",
                                     "has_investment_app"} \ DOMAIN p
                                |-> FALSE] @@ Completed(p),
                           target_time, target_amount, target_location)
               IN  /\ {"score", "match_level"} \subseteq DOMAIN e
                   /\ "score_details" \in DOMAIN full =>
                        /\ "score_details" \in DOMAIN e
                        /\ Base(e).time_score =
                               IF Lacks(p, "withdraw_time") THEN 0
                               ELSE Base(full).time_score
                        /\ Base(e).amount_score =
                               IF Lacks(p, "amount") THEN 0
                               ELSE Base(full).amount_score
                        /\ Base(e).location_score =
                               IF Lacks(p, "location")
                                  /\ Strip(target_location) # <<>>
                               THEN 0
                               ELSE Base(full).location_score
                        /\ Additional(e).gender_score =
                               IF Lacks(p, "gender") THEN 0
                               ELSE Additional(full).gender_score
                        /\ Additional(e).app_score =
                               Additional(flagsOff).app_score
                        /\ Additional(e).history_warning_score =
                               IF Lacks(p, "has_history_warning") THEN 0
                               ELSE Additional(full).history_warning_score
                        /\ Additional(e).frequency_score =
                               IF Lacks(p, "transaction_count") THEN 0
                               ELSE Additional(full).frequency_score
                        /\ e.score =
                               Base(e).time_score + Base(e).amount_score
                               + Base(e).location_score
                               + Additional(e).gender_score
                               + Additional(e).app_score
                               + Additional(e).history_warning_score
                               + Additional(e).frequency_score

\* a record without gender and without withdraw_time, scored against a clue
\* in the low bucket that names its district: the two sub-scores are 0, the
\* amount, location, flag and frequency scores are those of the complete
\* record
C12_Witness ==
    /\ Returned
    /\ Len(persons) = 1
    /\ DOMAIN persons[1] =
           DOMAIN CompletePerson("male") \ {"gender", "withdraw_time"}
    /\ target_amount < 30000
    /\ target_location = DingHai
    /\ "score_details" \in DOMAIN Ranked[1]
    /\ Base(Ranked[1]).time_score = 0
    /\ Additional(Ranked[1]).gender_score = 0
    /\ Base(Ranked[1]).location_score = 40
    /\ Additional(Ranked[1]).frequency_score = 10
    /\ Additional(Ranked[1]).history_warning_score > 0

\* C13: for every transaction_count of at least 1 the frequency score is
\* (transaction_count - 1) * 5, without an upper cap, whatever the bucket of
\* the clue amount.
C13_FrequencyScoreLinear ==
    \A i \in 1..Len(Ranked) :
        LET p == InputOf(Ranked[i])
        IN  ("transaction_count" \in DOMAIN p /\ p.transaction_count >= 1) =>
                Additional(Ranked[i]).frequency_score =
                    (p.transaction_count - 1) * 5

\* a record with four withdrawals scores 15, more than two steps
C13_Witness ==
    /\ Returned
    /\ \E i \in 1..Len(Ranked) :
           /\ InputOf(Ranked[i]).transaction_count = 4
           /\ Additional(Ranked[i]).frequency_score = 15

(***************************************************************************)
(* Properties of the warning merge.  They read what each run returned and  *)
(* the two files; a run leaves the key columns of the withdrawal file as   *)
(* they were.                                                              *)
(***************************************************************************)
Runs == 1..Len(merge_returns)

HasColumn(df, header) == header \in Range(df.columns)

\* the count and the labels of record i in the table a run returned
FinalCount(run, i) == run.merged_df.rows[i][YuJingCiShu].v

FinalLabels(run, i) == run.merged_df.rows[i][YiSiZhaPianLeiXing].s

\* the warning rows whose trimmed, non-blank, non-'nan' cell under `header`
\* equals the trimmed text of `cell`
RowsMatching(header, cell) ==
    {j \in 1..Len(warning_file.rows) :
        LET c == warning_file.rows[j][header]
            text == IF c = NaN THEN <<>> ELSE Strip(str(c))
        IN  text # <<>> /\ text # nan_text /\ text = Strip(str(cell))}

\* the non-blank labels of the warning rows `matching`, from row j on
RECURSIVE LabelsOf(_, _)
LabelsOf(matching, j) ==
    IF j > Len(warning_file.rows) THEN <<>>
    ELSE LET c == warning_file.rows[j][YiSiZhaPianLeiXing]
             label == IF c = NaN THEN <<>> ELSE Strip(str(c))
         IN  (IF j \in matching /\ label # <<>> /\ label # nan_text
              THEN <<label>> ELSE <<>>)
             \o LabelsOf(matching, j + 1)

\* C14: the phone stage assigns a count and labels only to records whose
\* count is still 0 after the ID stage: a record the ID stage matched ends
\* with its ID-stage count and labels, also when its phone number is that of
\* warning rows.
C14_PhoneStageLeavesIdMatches ==
    \A k \in Runs :
        LET run == merge_returns[k]
        IN  run.raised = "none" =>
                \A i \in 1..Len(run.id_stage) :
                    run.id_stage[i].count # 0 =>
                        /\ FinalCount(run, i) = run.id_stage[i].count
                        /\ FinalLabels(run, i) = run.id_stage[i].labels

\* a record matched by one warning row on its ID while two warning rows
\* carry its phone number: it ends with the count 1 and the ID row's label
C14_Witness ==
    /\ Len(merge_returns) = 1
    /\ merge_returns[1].raised = "none"
    /\ warning_file.columns = WarningHeaders
    /\ \E i \in 1..Len(withdraw_file.rows) :
           /\ merge_returns[1].id_stage[i].count = 1
           /\ Cardinality(RowsMatching(WarningHeaders[2],
                  withdraw_file.rows[i][WithdrawHeaders[2]])) = 2
           /\ FinalCount(merge_returns[1], i) = 1
           /\ FinalLabels(merge_returns[1], i) = <<"p">>

\* what C15 states of record i after the ID stage of `run`
IdStageAsStated(run, i) ==
    LET matching == RowsMatching(WarningHeaders[1],
                                 withdraw_file.rows[i][WithdrawHeaders[1]])
    IN  /\ run.id_stage[i].count = Cardinality(matching)
        /\ run.id_stage[i].labels = Join(LabelsOf(matching, 1), <<",", SP>>)

\* C15: with an ID column in both tables, after the ID stage every
\* withdrawal record's count is the number of warning rows whose trimmed,
\* non-blank, non-'nan' victim ID equals the record's trimmed ID (0 when
\* there is none) and its label text is the non-blank labels of those rows
\* joined with ', ' in row order, duplicates kept.
C15_AsStated ==
    \A k \in Runs :
        LET run == merge_returns[k]
        IN  (/\ k = 1
             /\ warning_file.columns = WarningHeaders
             /\ HasColumn(withdraw_file, WithdrawHeaders[1])) =>
                /\ Len(run.id_stage) = Len(withdraw_file.rows)
                /\ \A i \in 1..Len(run.id_stage) : IdStageAsStated(run, i)

\* C15, for the runs whose ID stage came to its end: the counts and labels
\* are as stated.
C15_WhenIdStageCompletes ==
    \A k \in Runs :
        LET run == merge_returns[k]
        IN  (/\ run.raised = "none"
             /\ warning_file.columns = WarningHeaders
             /\ HasColumn(withdraw_file, WithdrawHeaders[1])) =>
                /\ Len(run.id_stage) = Len(withdraw_file.rows)
                /\ \A i \in 1..Len(run.id_stage) : IdStageAsStated(run, i)

\* C16: a second run over the file the first run wrote, with the same warning
\* table, completes and gives every record the count the first run gave.
C16_AsStated ==
    (Len(merge_returns) = 2 /\ merge_returns[1].raised = "none") =>
        /\ merge_returns[2].raised = "none"
        /\ \A i \in 1..Len(withdraw_file.rows) :
               FinalCount(merge_returns[2], i) = FinalCount(merge_returns[1], i)

Processed == pc = "processed"

\* the keywords of a field that some header contains, by position
MatchingKeywords(keywords, columns) ==
    {k \in 1..Len(keywords) :
        \E i \in 1..Len(columns) : Contains(keywords[k], columns[i])}

\* the headers that contain a keyword, by position
HeadersWith(keyword, columns) ==
    {i \in 1..Len(columns) : Contains(keyword, columns[i])}

\* whether some header names the ID, and the header the claims bind it to
HasIdHeader ==
    MatchingKeywords(field_mapping[1].keywords, upload_file.columns) # {}

IdHeader ==
    LET columns == upload_file.columns
        keywords == field_mapping[1].keywords
    IN  columns[SetMin(HeadersWith(
            keywords[SetMin(MatchingKeywords(keywords, columns))], columns))]

\* the rows of the upload with an ID cell that is neither null nor blank
RowsWithId ==
    IF ~HasIdHeader THEN {}
    ELSE {i \in 1..Len(upload_file.rows) :
             LET cell == upload_file.rows[i][IdHeader]
             IN  cell # NaN /\ Strip(cell_str(cell)) # <<>>}

\* the entries of the log that report a skipped row
SkipEntries ==
    SelectSeq(log_entries,
              LAMBDA entry : entry.what \in {"no id column",
                                             "id blank, skipped",
                                             "row failed"})

\* C18: every field is bound to the first header, in header order, that
\* contains the first keyword, in keyword order, contained in any header (so
\* an earlier keyword in a later column wins over a later keyword in an
\* earlier column); containment is of the exact characters, so 'id' does not
\* match the keyword 'ID'; the field is unbound exactly when no header
\* contains any of its keywords.  The ID of a record is read from the column
\* so bound.
C18_FirstHeaderOfBestKeyword ==
    LET columns == upload_file.columns
        bound == column_map(columns)
    IN  /\ \A f \in 1..Len(field_mapping) :
               LET keywords == field_mapping[f].keywords
                   matching == MatchingKeywords(keywords, columns)
               IN  IF matching = {}
                   THEN field_mapping[f].field \notin DOMAIN bound
                   ELSE /\ field_mapping[f].field \in DOMAIN bound
                        /\ bound[field_mapping[f].field] =
                               columns[SetMin(HeadersWith(
                                   keywords[SetMin(matching)], columns))]
        /\ (Processed /\ "id_number" \notin DOMAIN bound) =>
               processed_data = <<>>
        /\ (Processed /\ Len(processed_data) = Len(upload_file.rows)) =>
               \A i \in 1..Len(processed_data) :
                   processed_data[i].id_number =
                       cell_str(upload_file.rows[i][bound["id_number"]])

\* headers 'ID', then '身份证号': the ID is read from the second column; and
\* headers 'id', then '客户ID': the lower-case header is passed over
C18_Witness ==
    /\ Processed
    /\ \/ upload_file.columns = <<<<"I", "D">>, ShenFenZhengHao>>
       \/ upload_file.columns = <<<<"i", "d">>, <<"ke", "hu", "I", "D">>>>
    /\ Len(processed_data) = 1
    /\ processed_data[1].id_number = <<"2">>

\* C19: the records returned are, in row order, the rows whose ID cell is
\* neither null nor blank after trimming, one record each; every other row is
\* skipped with one log entry; the batch is never aborted.
C19_AsStated ==
    Processed =>
        /\ Len(processed_data) = Cardinality(RowsWithId)
        /\ \A n \in 1..Len(processed_data) :
               \E i \in RowsWithId :
                   /\ Cardinality({j \in RowsWithId : j < i}) = n - 1
                   /\ processed_data[n].id_number =
                          cell_str(upload_file.rows[i][IdHeader])
        /\ Len(SkipEntries) = Len(upload_file.rows) - Cardinality(RowsWithId)

\* C19, for the uploads none of whose rows raises: one record per row with
\* an ID and one skip entry per other row; and in every case one record or
\* one skip entry per row.
C19_WhenNoRowRaises ==
    Processed =>
        /\ Len(processed_data) + Len(SkipEntries) = Len(upload_file.rows)
        /\ (\A n \in 1..Len(log_entries) : log_entries[n].what # "row failed")
               => /\ Len(processed_data) = Cardinality(RowsWithId)
                  /\ Len(SkipEntries) =
                         Len(upload_file.rows) - Cardinality(RowsWithId)

\* C20: a row with a non-blank ID is never dropped, whatever its other cells
\* hold: no row fails, and every such row has its record.
C20_AsStated ==
    Processed =>
        /\ \A n \in 1..Len(SkipEntries) : SkipEntries[n].row \notin RowsWithId
        /\ \A i \in RowsWithId :
               \E n \in 1..Len(processed_data) :
                   processed_data[n].id_number =
                       cell_str(upload_file.rows[i][IdHeader])

(***************************************************************************)
(* Properties of the direct calls.                                         *)
(***************************************************************************)
HelperReturned(method) == pc = "helped" /\ helper_call.method = method

\* the text a name or phone value is shown as: trimmed, a decimal-stored
\* number without its fractional part
ShownText(value) ==
    CASE value.t = "nan" -> <<>>
      [] value.t = "str" -> Strip(value.s)
      [] value.t = "inf" -> <<"i", "n", "f">>
      [] OTHER -> Decimal(value.v)

\* the four cases of the priority rules, given which values are present
NameByPriority(name_value, phone_value, id_number, has_name, has_phone) ==
    IF has_name /\ has_phone
    THEN Text(ShownText(name_value) \o <<SP>> \o ShownText(phone_value))
    ELSE IF has_phone THEN Text(ShownText(phone_value))
    ELSE IF has_name THEN Text(ShownText(name_value))
    ELSE Text(<<"yong", "hu">> \o
              SubSeq(id_number, SetMax({1, Len(id_number) - 3}),
                     Len(id_number)))

IsSentinel(value) ==
    Lower(ShownText(value)) \in {<<>>, nan_text, <<"n", "u", "l", "l">>}

\* C21: generate_user_name applies the priority rules first match wins:
\* name and phone present give '<name> <phone>', only the phone gives the
\* phone (a decimal-stored one without its fractional part), only the name
\* gives the name, neither gives '用户' and the last 4 characters of the ID.
\* Stated for values that are missing or blank, or are no 'nan' or 'null'
\* token in any letter case.
C21_AsStated ==
    HelperReturned("generate_user_name") =>
        LET name_value == helper_call.args[1]
            phone_value == helper_call.args[2]
            blank(value) == ShownText(value) = <<>>
        IN  /\ blank(name_value) \/ ~IsSentinel(name_value)
            /\ blank(phone_value) \/ ~IsSentinel(phone_value)
            => helper_result =
                   NameByPriority(name_value, phone_value, helper_call.args[3],
                                  ~blank(name_value), ~blank(phone_value))

\* the same for phone values other than the float inf
C21_WhenPhoneIsFinite ==
    HelperReturned("generate_user_name") =>
        LET name_value == helper_call.args[1]
            phone_value == helper_call.args[2]
            blank(value) == ShownText(value) = <<>>
        IN  /\ phone_value # Inf
            /\ blank(name_value) \/ ~IsSentinel(name_value)
            /\ blank(phone_value) \/ ~IsSentinel(phone_value)
            => helper_result =
                   NameByPriority(name_value, phone_value, helper_call.args[3],
                                  ~blank(name_value), ~blank(phone_value))

\* C22: in name synthesis a name or phone value that after trimming is the
\* empty string or 'nan' or 'null' in any letter case is treated as absent.
C22_AsStated ==
    HelperReturned("generate_user_name") =>
        LET name_value == helper_call.args[1]
            phone_value == helper_call.args[2]
        IN  phone_value # Inf
            => helper_result =
                   NameByPriority(name_value, phone_value, helper_call.args[3],
                                  ~IsSentinel(name_value),
                                  ~IsSentinel(phone_value))

\* the same for the five spellings the code lists
C22_ForListedSpellings ==
    HelperReturned("generate_user_name") =>
        LET name_value == helper_call.args[1]
            phone_value == helper_call.args[2]
            listed(value) == ShownText(value) \in
                                 {<<>>, nan_text, <<"N", "a", "N">>,
                                  <<"n", "u", "l", "l">>,
                                  <<"N", "U", "L", "L">>}
        IN  phone_value # Inf
            => helper_result =
                   NameByPriority(name_value, phone_value, helper_call.args[3],
                                  ~listed(name_value), ~listed(phone_value))

\* what a cell converts to when the affirmative texts are `tokens`
BooleanOf(value, tokens) ==
    CASE value.t = "nan" -> FALSE
      [] value.t = "inf" -> TRUE
      [] value.t = "str" -> Lower(Strip(value.s)) \in tokens
      [] OTHER -> value.v # 0

\* C23 as stated: convert_boolean_field returns true for a number iff it is
\* not zero, for a text iff it is one of '1', 'yes', 'true', '有', '是'
\* (here even allowing surrounding blanks and capitals), and false for
\* everything else including a missing value.
C23_AsStated ==
    HelperReturned("convert_boolean_field") =>
        helper_result =
            BooleanOf(helper_call.args[1],
                      {<<"1">>, <<"y", "e", "s">>, <<"t", "r", "u", "e">>,
                       <<"you">>, <<"shi4">>})

\* C23: convert_boolean_field returns true for a number iff it is not zero,
\* for a text iff, trimmed and in lower case, it is one of '1', '是', 'true',
\* 'yes', 'y', '有', and false for everything else including a missing
\* value.
C23_AffirmativeTextsIncludeY ==
    HelperReturned("convert_boolean_field") =>
        helper_result =
            BooleanOf(helper_call.args[1],
                      {<<"1">>, <<"shi4">>, <<"t", "r", "u", "e">>,
                       <<"y", "e", "s">>, <<"y">>, <<"you">>})

\* the text 'Y' was converted, to true
C23_Witness ==
    /\ HelperReturned("convert_boolean_field")
    /\ helper_call.args[1] = Text(<<"Y">>)
    /\ helper_result = TRUE

\* the districts in table order, each with the words that name it
DistrictTable ==
    <<<<DingHai, {DingHai}>>, <<PuTuo, {PuTuo}>>, <<DaiShan, {DaiShan}>>,
      <<ShengSi, {ShengSi}>>,
      <<QiTa, {QiTa, <<"qi", "ta1">>, <<"wei", "zhi">>}>>>>

\* the places of the table one of whose words is somewhere in the text
NamedIn(text) ==
    {k \in 1..Len(DistrictTable) :
        \E word \in DistrictTable[k][2] :
            \E i \in 1..Len(text) :
                /\ i + Len(word) - 1 <= Len(text)
                /\ \A j \in 1..Len(word) : text[i + j - 1] = word[j]}

\* C27: extract_location always returns one of 定海, 普陀, 岱山, 嵊泗, 其他:
\* the first district in table order one of whose keywords is a substring
\* of the text, wherever it occurs, and 其他 when the text is missing, blank
\* or matches no keyword.
C27_FirstDistrictInTableOrder ==
    HelperReturned("extract_location") =>
        LET location_text == helper_call.args[1]
            named == IF location_text.t = "str" THEN NamedIn(location_text.s)
                     ELSE {}
        IN  /\ helper_result \in Districts
            /\ helper_result =
                   IF named = {} THEN QiTa
                   ELSE DistrictTable[SetMin(named)][1]

\* a text naming 普陀 before 定海 and then something else gave 定海
C27_Witness ==
    /\ HelperReturned("extract_location")
    /\ helper_call.args[1] = Text(PuTuo \o DingHai \o <<"zhi", "hang">>)
    /\ helper_result = DingHai

(***************************************************************************)
(* Properties of the records of process_uploaded_data.                     *)
(***************************************************************************)
\* the rows that gave a record: those with an ID that did not fail
KeptRows ==
    {i \in RowsWithId :
        \A n \in 1..Len(log_entries) :
            ~(log_entries[n].what = "row failed" /\ log_entries[n].row = i)}

\* the row of the n-th record
RowOfRecord(n) ==
    upload_file.rows[CHOOSE i \in KeptRows :
                         Cardinality({j \in KeptRows : j < i}) = n - 1]

\* the cell of a row in the column bound to a field, NaN without column
CellFor(row, field) == cell_of(row, column_map(upload_file.columns), field)

AffirmativeTexts ==
    {<<"1">>, <<"shi4">>, <<"t", "r", "u", "e">>, <<"y", "e", "s">>, <<"y">>,
     <<"you">>}

\* C24: for every normalized record has_history_warning is true iff the
\* history-warning cell or the fraud-history cell converts to true; it is
\* false when both columns are absent or both cells are missing, and a true
\* value from one column is never overwritten to false by the other.
C24_HistoryWarningIsOrOfTwoColumns ==
    Processed =>
        /\ Len(processed_data) = Cardinality(KeptRows)
        /\ \A n \in 1..Len(processed_data) :
               LET warning == CellFor(RowOfRecord(n), "has_history_warning")
                   fraud == CellFor(RowOfRecord(n), "has_history_fraud")
               IN  /\ processed_data[n].has_history_warning =
                          (\/ BooleanOf(warning, AffirmativeTexts)
                           \/ BooleanOf(fraud, AffirmativeTexts))
                   /\ (warning = NaN /\ fraud = NaN) =>
                          ~processed_data[n].has_history_warning

\* the history-warning cell is 是 and the fraud-history cell, read after it,
\* is 否: the record keeps true
C24_Witness ==
    /\ Processed
    /\ upload_file.columns =
           <<FullHeaders[1], FullHeaders[11], FullHeaders[12]>>
    /\ upload_file.rows[1][FullHeaders[11]] = Text(<<"shi4">>)
    /\ upload_file.rows[1][FullHeaders[12]] = Text(<<"fou">>)
    /\ Len(processed_data) = 1
    /\ processed_data[1].has_history_warning

\* whether a cell holds no number: missing, blank, or a text that float()
\* refuses
NotANumber(cell) ==
    \/ cell = NaN
    \/ /\ cell.t = "str"
       /\ \/ Strip(cell.s) = <<>>
          \/ float_of(cell) = Raised("ValueError")

\* C25: every record of process_uploaded_data has transaction_count as an
\* integer >= 1, and 1 when the column is absent or the cell is missing,
\* blank or unparsable.
C25_AsStated ==
    Processed =>
        \A n \in 1..Len(processed_data) :
            /\ processed_data[n].transaction_count \in Int
            /\ processed_data[n].transaction_count >= 1
            /\ NotANumber(CellFor(RowOfRecord(n), "transaction_count"))
                   => processed_data[n].transaction_count = 1

\* the default alone: 1 when the column is absent or the cell holds no number
C25_DefaultIsOne ==
    Processed =>
        \A n \in 1..Len(processed_data) :
            NotANumber(CellFor(RowOfRecord(n), "transaction_count"))
                => processed_data[n].transaction_count = 1

\* the number a cell spells, as float() reads it: digits with an optional
\* sign, or 'inf' or 'nan' in any letter case; None for any other text
NumberSpelled(cell) ==
    IF cell.t \in {"num", "float"} THEN Float(cell.v)
    ELSE IF cell.t = "inf" THEN Inf
    ELSE IF cell.t = "nan" THEN None
    ELSE LET text == Strip(cell.s)
             digits == IF text # <<>> /\ Head(text) = "-" THEN Tail(text)
                       ELSE text
         IN  IF digits # <<>> /\ \A i \in 1..Len(digits) : isdigit(digits[i])
             THEN Float(IF digits = text THEN NumberOf(digits)
                        ELSE -NumberOf(digits))
             ELSE IF Lower(digits) = <<"i", "n", "f">> THEN Inf
             ELSE IF Lower(digits) = nan_text THEN NaN
             ELSE None

\* C26: the normalized amount is the cell parsed as a number; it is 0.0 when
\* the amount column is absent or the cell is missing, blank or not a
\* number; a negative number is passed through unchanged.
C26_AmountIsParsedCellOrZero ==
    Processed =>
        \A n \in 1..Len(processed_data) :
            LET cell == CellFor(RowOfRecord(n), "amount")
            IN  /\ processed_data[n].amount =
                       IF NumberSpelled(cell) = None THEN Float(0)
                       ELSE NumberSpelled(cell)
                /\ (cell.t \in {"num", "float"} /\ cell.v < 0) =>
                       processed_data[n].amount.v = cell.v

\* a record was made of a row whose amount cell is the number -1
C26_Witness ==
    /\ Processed
    /\ \E n \in 1..Len(processed_data) :
           /\ CellFor(RowOfRecord(n), "amount") = Num(-1)
           /\ processed_data[n].amount = Float(-1)

(***************************************************************************)
(* The merge without usable victim IDs.                                    *)
(***************************************************************************)
\* the warning rows with a victim ID that is not blank and not 'nan'
RowsWithVictimId ==
    {j \in 1..Len(warning_file.rows) :
        LET c == warning_file.rows[j][WarningHeaders[1]]
        IN  c # NaN /\ Strip(str(c)) \notin {<<>>, nan_text}}

\* C28: when both tables have an ID column but the warning table has no
\* usable victim ID (no rows, or every ID cell blank or 'nan'), the merge
\* completes without error: every record has count 0 after the ID stage
\* and the phone stage still runs, counting the warning rows with the
\* record's phone number.
C28_AsStated ==
    \A k \in Runs :
        LET run == merge_returns[k]
        IN  (/\ k = 1
             /\ warning_file.columns = WarningHeaders
             /\ HasColumn(withdraw_file, WithdrawHeaders[1])
             /\ HasColumn(withdraw_file, WithdrawHeaders[2])
             /\ RowsWithVictimId = {}) =>
                /\ run.raised = "none"
                /\ Len(run.id_stage) = Len(withdraw_file.rows)
                /\ \A i \in 1..Len(run.id_stage) :
                       /\ run.id_stage[i].count = 0
                       /\ FinalCount(run, i) =
                              Cardinality(RowsMatching(WarningHeaders[2],
                                  withdraw_file.rows[i][WithdrawHeaders[2]]))

EnrichmentKeys == {"warning_count", "fraud_type"}

\* two records with the same value under every key but the enrichment keys
\* and the ID that tells them apart
AlikeButEnrichment(a, b) ==
    Without(a, EnrichmentKeys \cup {"id_number"})
        = Without(b, EnrichmentKeys \cup {"id_number"})

\* the place in the ranking of the record with this ID
PlaceOf(id) == CHOOSE k \in 1..Len(Ranked) : Ranked[k].id_number = id

\* C29: two records of a batch that differ only in warning count and
\* fraud-type labels (and in the ID that tells them apart) get the same base
\* sub-scores, the same additional sub-scores, the same total and the same
\* match level under every clue, and the one that came first in the input
\* stands before the other in the ranking.
C29_EnrichmentLeavesScoresAndOrder ==
    Returned =>
        \A i, j \in 1..Len(persons) :
            (/\ i < j
             /\ persons[i].id_number # persons[j].id_number
             /\ AlikeButEnrichment(persons[i], persons[j]))
            => LET first == PlaceOf(persons[i].id_number)
                   second == PlaceOf(persons[j].id_number)
               IN  /\ Base(Ranked[first]) = Base(Ranked[second])
                   /\ Additional(Ranked[first]) = Additional(Ranked[second])
                   /\ Ranked[first].score = Ranked[second].score
                   /\ Ranked[first].match_level = Ranked[second].match_level
                   /\ first < second

\* a batch was ranked whose first record has no warning and no label, whose
\* last record is the same but for 2 warnings and two labels, and whose
\* middle record scores less than both
C29_Witness ==
    /\ Returned
    /\ Len(persons) = 3
    /\ "warning_count" \in DOMAIN persons[1]
    /\ persons[1].warning_count = 0
    /\ persons[1].fraud_type = <<>>
    /\ persons[3].warning_count = 2
    /\ persons[3].fraud_type = <<"p", ",", SP, "q">>
    /\ AlikeButEnrichment(persons[1], persons[3])
    /\ Ranked[1].id_number = 1
    /\ Ranked[2].id_number = 2
    /\ Ranked[3].score < Ranked[2].score

AmountTiers == {10, 15, 20, 25, 30, 35, 40}

\* C30: under a clue amount above 0, a record whose amount is 0 or negative
\* has amount_score 0 and a record whose amount is above 0 has an
\* amount_score among 10, 15, 20, 25, 30, 35, 40; 5 never comes out.
C30_AsStated ==
    (Returned /\ target_amount > 0) =>
        \A k \in 1..Len(Ranked) :
            /\ Ranked[k].amount <= 0 => Base(Ranked[k]).amount_score = 0
            /\ Ranked[k].amount > 0 =>
                   Base(Ranked[k]).amount_score \in AmountTiers

\* the same with both amounts finite
C30_ForFiniteAmounts ==
    (Returned /\ target_amount > 0 /\ target_amount # Infinity) =>
        \A k \in 1..Len(Ranked) :
            Ranked[k].amount # Infinity =>
                /\ Ranked[k].amount <= 0 => Base(Ranked[k]).amount_score = 0
                /\ Ranked[k].amount > 0 =>
                       Base(Ranked[k]).amount_score \in AmountTiers

====
